---- MODULE Spec2Model ----
(***************************************************************************)
(* Intelligence extraction, cumulative merge and the honeypot request      *)
(* handler of guvi-honeypot (app/services/intelligence.py,                 *)
(* app/routes/honeypot.py, app/services/callback.py).                      *)
(*                                                                         *)
(* A text is a sequence of one-character strings.  Regular expressions are *)
(* values (records tagged by t) and are matched by a backtracking matcher  *)
(* that returns the candidate end positions in the priority order of       *)
(* Python's re module, so that findall picks the same match as the code.   *)
(***************************************************************************)
EXTENDS Integers, Sequences, FiniteSets, TLC

\* ------------------------------------------------------------------------
\* Characters
\* ------------------------------------------------------------------------
UpperSeq == <<"A","B","C","D","E","F","G","H","I","J","K","L","M",
              "N","O","P","Q","R","S","T","U","V","W","X","Y","Z">>
LowerSeq == <<"a","b","c","d","e","f","g","h","i","j","k","l","m",
              "n","o","p","q","r","s","t","u","v","w","x","y","z">>
DigitSeq == <<"0","1","2","3","4","5","6","7","8","9">>

Range(s) == {s[i] : i \in 1..Len(s)}

Uppers == Range(UpperSeq)
Lowers == Range(LowerSeq)
Digits == Range(DigitSeq)
Alphas == Uppers \cup Lowers
Alnums == Alphas \cup Digits
WordChars == Alnums \cup {"_"}
\* the grave accent, which cannot be written inside a string here
Backtick == "GRAVE"
Spaces == {" ", "\t", "\n", "\r"}

\* str.lower() / str.upper() on one character
LowerChar(c) ==
    IF c \in Uppers THEN LowerSeq[CHOOSE k \in 1..26 : UpperSeq[k] = c] ELSE c
UpperChar(c) ==
    IF c \in Lowers THEN UpperSeq[CHOOSE k \in 1..26 : LowerSeq[k] = c] ELSE c

\* str.lower() on a text
Lower(s) == [i \in 1..Len(s) |-> LowerChar(s[i])]

\* str.isdigit(): non-empty and all digits
IsDigitStr(s) == Len(s) > 0 /\ \A i \in 1..Len(s) : s[i] \in Digits

\* s.startswith(p)
StartsWith(s, p) == Len(p) <= Len(s) /\ SubSeq(s, 1, Len(p)) = p

\* the text p occurs at position i of s
OccursAt(s, p, i) == i + Len(p) - 1 <= Len(s) /\ SubSeq(s, i, i + Len(p) - 1) = p

\* (p in s) for strings
Contains(s, p) == \E i \in 1..(Len(s) + 1) : OccursAt(s, p, i)

\* (x in list)
InList(x, l) == \E i \in 1..Len(l) : l[i] = x

\* ------------------------------------------------------------------------
\* Regular expressions (the subset of Python's re the patterns use)
\* ------------------------------------------------------------------------
Cls(set)      == [t |-> "cls", neg |-> FALSE, set |-> set]
NotCls(set)   == [t |-> "cls", neg |-> TRUE,  set |-> set]
Lit(s)        == [t |-> "lit", s |-> s]
Cat(items)    == [t |-> "seq", items |-> items]
Alt(items)    == [t |-> "alt", items |-> items]
Rep(r, lo, hi) == [t |-> "rep", r |-> r, lo |-> lo, hi |-> hi]
Opt(r)        == Rep(r, 0, 1)
WordB         == [t |-> "wb"]
Eps           == Cat(<< >>)

\* hi = -1 stands for "no upper bound" (*, + and {n,})
Star(r)      == Rep(r, 0, -1)
Plus(r)      == Rep(r, 1, -1)
AtLeast(r, n) == Rep(r, n, -1)

\* one character against a class, under re.IGNORECASE when ic
InCls(re, c, ic) ==
    LET hit == c \in re.set
                 \/ (ic /\ (LowerChar(c) \in re.set \/ UpperChar(c) \in re.set))
    IN  IF re.neg THEN ~hit ELSE hit

LitAt(p, s, i, ic) ==
    /\ i + Len(p) - 1 <= Len(s)
    /\ \A k \in 1..Len(p) :
          IF ic THEN LowerChar(s[i + k - 1]) = LowerChar(p[k])
                ELSE s[i + k - 1] = p[k]

\* \b at position i (between s[i-1] and s[i])
IsWordBoundary(s, i) ==
    LET before == i > 1 /\ s[i - 1] \in WordChars
        after  == i <= Len(s) /\ s[i] \in WordChars
    IN  before # after

\* order-preserving removal of repeated positions
RECURSIVE DedupPos(_)
DedupPos(ps) ==
    IF ps = << >> THEN << >>
    ELSE LET init == DedupPos(SubSeq(ps, 1, Len(ps) - 1))
             x == ps[Len(ps)]
         IN  IF InList(x, init) THEN init ELSE Append(init, x)

\* Ends(re, s, i, ic): the positions where a match of re starting at position
\* i of s can end, in the order the backtracking matcher tries them
\* (greedy repetition first, alternatives left to right).
RECURSIVE Ends(_, _, _, _)
RECURSIVE EndsFrom(_, _, _, _, _)
RECURSIVE SeqEnds(_, _, _, _, _)
RECURSIVE AltEnds(_, _, _, _, _)
RECURSIVE RepEnds(_, _, _, _, _)
RECURSIVE RepMore(_, _, _, _, _, _)

\* all ends of re started from each position of ps (from index k on)
EndsFrom(re, s, ps, k, ic) ==
    IF k > Len(ps) THEN << >>
    ELSE Ends(re, s, ps[k], ic) \o EndsFrom(re, s, ps, k + 1, ic)

SeqEnds(items, k, s, ps, ic) ==
    IF k > Len(items) \/ ps = << >> THEN ps
    ELSE SeqEnds(items, k + 1, s, DedupPos(EndsFrom(items[k], s, ps, 1, ic)), ic)

AltEnds(items, k, s, i, ic) ==
    IF k > Len(items) THEN << >>
    ELSE Ends(items[k], s, i, ic) \o AltEnds(items, k + 1, s, i, ic)

\* continuations of a repetition after its (n+1)-th iteration ended at js[k..]
RepMore(re, n, s, js, k, ic) ==
    IF k > Len(js) THEN << >>
    ELSE RepEnds(re, n, s, js[k], ic) \o RepMore(re, n, s, js, k + 1, ic)

\* greedy repetition having completed n iterations, standing at i
RepEnds(re, n, s, i, ic) ==
    LET one  == IF re.hi < 0 \/ n < re.hi THEN Ends(re.r, s, i, ic) ELSE << >>
        adv  == SelectSeq(one, LAMBDA j : j > i)
        more == RepMore(re, n + 1, s, adv, 1, ic)
        here == IF n >= re.lo THEN <<i>> ELSE << >>
    IN  DedupPos(more \o here)

Ends(re, s, i, ic) ==
    CASE re.t = "cls" -> IF i <= Len(s) /\ InCls(re, s[i], ic) THEN <<i + 1>> ELSE << >>
      [] re.t = "lit" -> IF LitAt(re.s, s, i, ic) THEN <<i + Len(re.s)>> ELSE << >>
      [] re.t = "wb"  -> IF IsWordBoundary(s, i) THEN <<i>> ELSE << >>
      [] re.t = "seq" -> SeqEnds(re.items, 1, s, <<i>>, ic)
      [] re.t = "alt" -> DedupPos(AltEnds(re.items, 1, s, i, ic))
      [] re.t = "rep" -> RepEnds(re, 0, s, i, ic)

\* A pattern is pre (group) post with at most one capturing group; ic is the
\* IGNORECASE flag (inline (?i) or the flags argument).
Pattern(pre, grp, post, ic) == [pre |-> pre, grp |-> grp, post |-> post, ic |-> ic]

NoMatch == [found |-> FALSE, gs |-> 0, ge |-> 0, e |-> 0]

\* first (highest-priority) match of pat starting exactly at position i
RECURSIVE PostFirst(_, _, _, _, _)
PostFirst(pat, s, p1, p2s, k) ==
    IF k > Len(p2s) THEN NoMatch
    ELSE LET p3s == Ends(pat.post, s, p2s[k], pat.ic)
         IN  IF p3s # << >>
             THEN [found |-> TRUE, gs |-> p1, ge |-> p2s[k], e |-> p3s[1]]
             ELSE PostFirst(pat, s, p1, p2s, k + 1)

RECURSIVE GrpFirst(_, _, _, _)
GrpFirst(pat, s, p1s, k) ==
    IF k > Len(p1s) THEN NoMatch
    ELSE LET m == PostFirst(pat, s, p1s[k], Ends(pat.grp, s, p1s[k], pat.ic), 1)
         IN  IF m.found THEN m ELSE GrpFirst(pat, s, p1s, k + 1)

MatchAt(pat, s, i) == GrpFirst(pat, s, Ends(pat.pre, s, i, pat.ic), 1)

\* re.findall(pattern, text): the captured group of each successive
\* non-overlapping match, scanning left to right
RECURSIVE FindAllFrom(_, _, _)
FindAllFrom(pat, s, i) ==
    IF i > Len(s) + 1 THEN << >>
    ELSE LET m == MatchAt(pat, s, i)
         IN  IF m.found
             THEN <<SubSeq(s, m.gs, m.ge - 1)>>
                    \o FindAllFrom(pat, s, IF m.e > i THEN m.e ELSE i + 1)
             ELSE FindAllFrom(pat, s, i + 1)

FindAll(pat, s) == FindAllFrom(pat, s, 1)

\* ------------------------------------------------------------------------
\* IntelligenceService.__init__: the patterns and vocabularies
\* ------------------------------------------------------------------------
\* [.\s:-]
SepChars == {".", ":", "-"} \cup Spaces
\* [.:\s-]  (same set, as written in the id patterns)
IdSepChars == {".", ":", "-"} \cup Spaces
\* [\s.-]
PhoneSepChars == {".", "-"} \cup Spaces
Digit == Cls(Digits)

bank_account_patterns == <<
    \* (?i)(?:a/c|acct|account|acc)[.\s:-]*(?:no|number)?[.\s:-]*(\d{9,18})
    Pattern(Cat(<<Alt(<<Lit(<<"a","/","c">>), Lit(<<"a","c","c","t">>), Lit(<<"a","c","c","o","u","n","t">>), Lit(<<"a","c","c">>)>>),
                  Star(Cls(SepChars)),
                  Opt(Alt(<<Lit(<<"n","o">>), Lit(<<"n","u","m","b","e","r">>)>>)),
                  Star(Cls(SepChars))>>),
            Rep(Digit, 9, 18), Eps, TRUE),
    \* (?i)(?:account|a/c)\s*(\d{9,18})
    Pattern(Cat(<<Alt(<<Lit(<<"a","c","c","o","u","n","t">>), Lit(<<"a","/","c">>)>>),
                  Star(Cls(Spaces))>>),
            Rep(Digit, 9, 18), Eps, TRUE),
    \* \b(\d{11,16})\b   (searched with re.IGNORECASE)
    Pattern(WordB, Rep(Digit, 11, 16), WordB, TRUE) >>

\* ([a-zA-Z0-9._-]+@[a-zA-Z0-9]+)   (searched with re.IGNORECASE)
upi_pattern ==
    Pattern(Eps,
            Cat(<<Plus(Cls(Alnums \cup {".", "_", "-"})), Lit(<<"@">>), Plus(Cls(Alnums))>>),
            Eps, TRUE)

email_domains ==
    {<<"g","m","a","i","l">>,
     <<"y","a","h","o","o">>,
     <<"h","o","t","m","a","i","l">>,
     <<"o","u","t","l","o","o","k">>,
     <<"r","e","d","i","f","f","m","a","i","l">>,
     <<"p","r","o","t","o","n","m","a","i","l">>,
     <<"i","c","l","o","u","d">>,
     <<"m","a","i","l">>,
     <<"e","m","a","i","l">>,
     <<"l","i","v","e">>,
     <<"m","s","n">>,
     <<"a","o","l">>,
     <<"z","o","h","o">>,
     <<"y","a","n","d","e","x">>}

upi_handles ==
    {<<"u","p","i">>,
     <<"p","a","y","t","m">>,
     <<"o","k","h","d","f","c","b","a","n","k">>,
     <<"o","k","i","c","i","c","i">>,
     <<"o","k","s","b","i">>,
     <<"y","b","l">>,
     <<"a","p","l">>,
     <<"a","x","l">>,
     <<"i","b","l">>,
     <<"s","b","i">>,
     <<"h","d","f","c">>,
     <<"i","c","i","c","i">>,
     <<"a","x","i","s">>,
     <<"k","o","t","a","k">>,
     <<"i","n","d","u","s">>,
     <<"f","e","d","e","r","a","l">>,
     <<"g","p","a","y">>,
     <<"p","h","o","n","e","p","e">>,
     <<"a","m","a","z","o","n","p","a","y">>,
     <<"f","r","e","e","c","h","a","r","g","e">>,
     <<"a","i","r","t","e","l">>,
     <<"j","i","o">>,
     <<"m","o","b","i","k","w","i","k">>,
     <<"s","l","i","c","e">>,
     <<"c","r","e","d">>,
     <<"i","d","f","c","f","i","r","s","t">>,
     <<"r","b","l">>,
     <<"d","b","s">>,
     <<"y","e","s">>,
     <<"b","o","b">>,
     <<"p","n","b">>,
     <<"c","a","n","a","r","a">>,
     <<"f","a","k","e","b","a","n","k">>,
     <<"f","a","k","e","u","p","i">>}

\* https?://[^\s<>"{}|\\^BACKTICK\[\]]+   (BACKTICK: the grave accent character)
url_pattern ==
    Pattern(Eps,
            Cat(<<Lit(<<"h","t","t","p">>), Opt(Lit(<<"s">>)), Lit(<<":","/","/">>),
                  Plus(NotCls(Spaces \cup {"<", ">", "\"", "{", "}", "|", "\\", "^", Backtick, "[", "]"}))>>),
            Eps, FALSE)

phone_patterns_with_prefix == <<
    \* (\+91[\s.-]?\d{5}[\s.-]?\d{5})
    Pattern(Eps,
            Cat(<<Lit(<<"+","9","1">>), Opt(Cls(PhoneSepChars)), Rep(Digit, 5, 5),
                  Opt(Cls(PhoneSepChars)), Rep(Digit, 5, 5)>>),
            Eps, FALSE),
    \* (\+91[\s.-]?\d{10})
    Pattern(Eps,
            Cat(<<Lit(<<"+","9","1">>), Opt(Cls(PhoneSepChars)), Rep(Digit, 10, 10)>>),
            Eps, FALSE) >>

phone_patterns_standalone == <<
    \* \b([6-9]\d{9})\b
    Pattern(WordB, Cat(<<Cls({"6", "7", "8", "9"}), Rep(Digit, 9, 9)>>), WordB, FALSE) >>

\* [a-zA-Z0-9._%+-]+@[a-zA-Z0-9.-]+\.[a-zA-Z]{2,}   (searched with re.IGNORECASE)
email_pattern ==
    Pattern(Eps,
            Cat(<<Plus(Cls(Alnums \cup {".", "_", "%", "+", "-"})), Lit(<<"@">>),
                  Plus(Cls(Alnums \cup {".", "-"})), Lit(<<".">>), AtLeast(Cls(Alphas), 2)>>),
            Eps, TRUE)

suspicious_keywords ==
    <<<<"b","l","o","c","k","e","d">>,
      <<"s","u","s","p","e","n","d">>,
      <<"e","x","p","i","r","e","d">>,
      <<"u","r","g","e","n","t">>,
      <<"i","m","m","e","d","i","a","t","e">>,
      <<"t","o","d","a","y">>,
      <<"v","e","r","i","f","y">>,
      <<"k","y","c">>,
      <<"u","p","d","a","t","e">>,
      <<"c","o","n","f","i","r","m">>,
      <<"v","a","l","i","d","a","t","e">>,
      <<"o","t","p">>,
      <<"p","i","n">>,
      <<"p","a","s","s","w","o","r","d">>,
      <<"c","v","v">>,
      <<"c","a","r","d"," ","n","u","m","b","e","r">>,
      <<"r","e","f","u","n","d">>,
      <<"p","r","i","z","e">>,
      <<"l","o","t","t","e","r","y">>,
      <<"w","i","n","n","e","r">>,
      <<"c","a","s","h","b","a","c","k">>,
      <<"r","e","w","a","r","d">>,
      <<"l","e","g","a","l"," ","a","c","t","i","o","n">>,
      <<"p","o","l","i","c","e">>,
      <<"a","r","r","e","s","t">>,
      <<"c","o","u","r","t">>,
      <<"f","i","r">>,
      <<"d","o","w","n","l","o","a","d">>,
      <<"a","p","k">>,
      <<"i","n","s","t","a","l","l">>,
      <<"c","l","i","c","k"," ","h","e","r","e">>,
      <<"l","i","n","k">>,
      <<"p","a","n"," ","c","a","r","d">>,
      <<"a","a","d","h","a","r">>,
      <<"a","a","d","h","a","a","r">>,
      <<"b","a","n","k"," ","a","c","c","o","u","n","t">>,
      <<"t","r","a","n","s","f","e","r">>>>

\* (?:is\s*)?
OptIs == Opt(Cat(<<Lit(<<"i","s">>), Star(Cls(Spaces))>>))
\* [A-Z]{0,5}[-/]?\d{lo,hi}
IdBody(lo, hi) == Cat(<<Rep(Cls(Uppers), 0, 5), Opt(Cls({"-", "/"})), Rep(Digit, lo, hi)>>)

case_id_patterns == <<
    \* (?i)(?:case|ref|reference|complaint|ticket|incident|fir)\s*(?:no|number|id|#)?[.:\s-]*(?:is\s*)?([A-Z]{0,5}[-/]?\d{3,12})
    Pattern(Cat(<<Alt(<<Lit(<<"c","a","s","e">>), Lit(<<"r","e","f">>), Lit(<<"r","e","f","e","r","e","n","c","e">>), Lit(<<"c","o","m","p","l","a","i","n","t">>), Lit(<<"t","i","c","k","e","t">>), Lit(<<"i","n","c","i","d","e","n","t">>), Lit(<<"f","i","r">>)>>),
                  Star(Cls(Spaces)),
                  Opt(Alt(<<Lit(<<"n","o">>), Lit(<<"n","u","m","b","e","r">>), Lit(<<"i","d">>), Lit(<<"#">>)>>)),
                  Star(Cls(IdSepChars)), OptIs>>),
            IdBody(3, 12), Eps, TRUE),
    \* \b([A-Z]{2,5}[-/]\d{4,12})\b
    Pattern(WordB,
            Cat(<<Rep(Cls(Uppers), 2, 5), Cls({"-", "/"}), Rep(Digit, 4, 12)>>),
            WordB, FALSE) >>

policy_number_patterns == <<
    \* (?i)(?:policy|pol)\s*(?:no|number|#)?[.:\s-]*(?:is\s*)?([A-Z]{0,5}[-/]?\d{4,15})
    Pattern(Cat(<<Alt(<<Lit(<<"p","o","l","i","c","y">>), Lit(<<"p","o","l">>)>>),
                  Star(Cls(Spaces)),
                  Opt(Alt(<<Lit(<<"n","o">>), Lit(<<"n","u","m","b","e","r">>), Lit(<<"#">>)>>)),
                  Star(Cls(IdSepChars)), OptIs>>),
            IdBody(4, 15), Eps, TRUE) >>

order_number_patterns == <<
    \* (?i)(?:order|ord|transaction|txn)\s*(?:no|number|id|#)?[.:\s-]*(?:is\s*)?([A-Z]{0,5}[-/]?\d{3,15})
    Pattern(Cat(<<Alt(<<Lit(<<"o","r","d","e","r">>), Lit(<<"o","r","d">>), Lit(<<"t","r","a","n","s","a","c","t","i","o","n">>), Lit(<<"t","x","n">>)>>),
                  Star(Cls(Spaces)),
                  Opt(Alt(<<Lit(<<"n","o">>), Lit(<<"n","u","m","b","e","r">>), Lit(<<"i","d">>), Lit(<<"#">>)>>)),
                  Star(Cls(IdSepChars)), OptIs>>),
            IdBody(3, 15), Eps, TRUE),
    \* \b(ORD[-/]\d{4,12})\b
    Pattern(WordB, Cat(<<Lit(<<"O","R","D">>), Cls({"-", "/"}), Rep(Digit, 4, 12)>>), WordB, FALSE),
    \* \b(TXN[-/]\d{4,12})\b
    Pattern(WordB, Cat(<<Lit(<<"T","X","N">>), Cls({"-", "/"}), Rep(Digit, 4, 12)>>), WordB, FALSE) >>

\* ------------------------------------------------------------------------
\* models.ExtractedIntelligence
\* ------------------------------------------------------------------------
Fields == {"bankAccounts", "upiIds", "phishingLinks", "phoneNumbers", "emailAddresses",
           "caseIds", "policyNumbers", "orderNumbers", "suspiciousKeywords"}

\* ExtractedIntelligence(): every field a fresh empty list
ExtractedIntelligence == [f \in Fields |-> << >>]

\* ------------------------------------------------------------------------
\* IntelligenceService.extract
\* ------------------------------------------------------------------------
\* s.split(c)[0]
SplitHead(s, c) ==
    IF \E i \in 1..Len(s) : s[i] = c
    THEN SubSeq(s, 1, (CHOOSE i \in 1..Len(s) : s[i] = c /\ \A j \in 1..(i - 1) : s[j] # c) - 1)
    ELSE s

\* everything after the first c (empty when c does not occur)
AfterFirst(s, c) ==
    IF \E i \in 1..Len(s) : s[i] = c
    THEN SubSeq(s, (CHOOSE i \in 1..Len(s) : s[i] = c /\ \A j \in 1..(i - 1) : s[j] # c) + 1, Len(s))
    ELSE << >>

\* s.split(c)[1], for an s that contains c
SplitSecond(s, c) == SplitHead(AfterFirst(s, c), c)

\* s.rstrip(chars)
RECURSIVE RStrip(_, _)
RStrip(s, chars) ==
    IF s # << >> /\ s[Len(s)] \in chars THEN RStrip(SubSeq(s, 1, Len(s) - 1), chars) ELSE s

\* re.sub(r'[^\d]', '', s)
DigitsOnly(s) == SelectSeq(s, LAMBDA c : c \in Digits)

\* the findall results of each pattern of a list, in the order of the two loops
\*   for pattern in patterns: for match in re.findall(pattern, text)
RECURSIVE AllMatches(_, _, _)
AllMatches(patterns, text, k) ==
    IF k > Len(patterns) THEN << >>
    ELSE FindAll(patterns[k], text) \o AllMatches(patterns, text, k + 1)

\* the bank-account loop without the test for timestamps (lines 134-136)
RECURSIVE ExtractBankAccounts_timestamps(_, _, _)
ExtractBankAccounts_timestamps(ms, k, acc) ==
    IF k > Len(ms) THEN acc
    ELSE LET match == ms[k]
             keep  == /\ IsDigitStr(match) /\ 9 <= Len(match) /\ Len(match) <= 18
                      /\ ~(Len(match) = 10 /\ match[1] \in {"6", "7", "8", "9"})
                      /\ ~InList(match, acc)
         IN  ExtractBankAccounts_timestamps(ms, k + 1, IF keep THEN Append(acc, match) ELSE acc)

\* lines 120-139
RECURSIVE ExtractBankAccounts(_, _, _)
ExtractBankAccounts(ms, k, acc) ==
    IF k > Len(ms) THEN acc
    ELSE LET match == ms[k]
             keep  == /\ IsDigitStr(match) /\ 9 <= Len(match) /\ Len(match) <= 18
                      /\ ~(Len(match) = 10 /\ match[1] \in {"6", "7", "8", "9"})
                      /\ ~(Len(match) = 10
                             /\ (\/ StartsWith(match, <<"1","6">>)
                                 \/ StartsWith(match, <<"1","7">>)
                                 \/ StartsWith(match, <<"1","8">>)))
                      /\ ~InList(match, acc)
         IN  ExtractBankAccounts(ms, k + 1, IF keep THEN Append(acc, match) ELSE acc)

\* lines 146-156: st.emails is intel.emailAddresses, st.prefixes is email_prefixes
RECURSIVE ExtractEmails(_, _, _)
ExtractEmails(ms, k, st) ==
    IF k > Len(ms) THEN st
    ELSE LET email       == ms[k]
             email_clean == Lower(email)
             domain      == IF InList("@", email_clean) THEN SplitSecond(email_clean, "@") ELSE << >>
             keep        == InList(".", domain) /\ ~InList(email_clean, [i \in 1..Len(st.emails) |-> Lower(st.emails[i])])
             handle_prefix == SplitHead(SplitHead(SplitSecond(email_clean, "@"), "."), "-")
         IN  ExtractEmails(ms, k + 1,
                 IF keep
                 THEN [emails   |-> Append(st.emails, email),
                       prefixes |-> st.prefixes \cup {SplitHead(email_clean, "@") \o <<"@">> \o handle_prefix}]
                 ELSE st)

\* lines 159-190
RECURSIVE ExtractUpiIds(_, _, _, _, _)
ExtractUpiIds(ms, k, emails, email_prefixes, acc) ==
    IF k > Len(ms) THEN acc
    ELSE LET match  == ms[k]
             handle == Lower(SplitSecond(match, "@"))
             match_lower == Lower(match)
             is_email_fragment ==
                 \E i \in 1..Len(emails) :
                     StartsWith(Lower(emails[i]), match_lower) /\ Len(emails[i]) > Len(match)
             keep == /\ InList("@", match)
                     /\ handle \notin email_domains
                     /\ ~InList(".", handle)
                     /\ match_lower \notin email_prefixes
                     /\ ~is_email_fragment
                     /\ (handle \in upi_handles \/ Len(handle) <= 10)
                     /\ ~InList(match_lower, [i \in 1..Len(acc) |-> Lower(acc[i])])
         IN  ExtractUpiIds(ms, k + 1, emails, email_prefixes,
                           IF keep THEN Append(acc, match) ELSE acc)

\* lines 193-198
RECURSIVE ExtractUrls(_, _, _)
ExtractUrls(ms, k, acc) ==
    IF k > Len(ms) THEN acc
    ELSE LET url == RStrip(ms[k], {".", ",", ";", ":", "!", "?", ")"})
         IN  ExtractUrls(ms, k + 1,
                 IF url # << >> /\ ~InList(url, acc) THEN Append(acc, url) ELSE acc)

\* "+91-" followed by the ten digits
Canonical(core_digits) == <<"+","9","1","-">> \o core_digits

\* lines 207-227: st.seen is seen_phone_digits, st.phones is intel.phoneNumbers
RECURSIVE ExtractPrefixedPhones(_, _, _)
ExtractPrefixedPhones(ms, k, st) ==
    IF k > Len(ms) THEN st
    ELSE LET digits_only == DigitsOnly(ms[k])
             core_digits ==
                 IF StartsWith(digits_only, <<"9","1">>) /\ Len(digits_only) >= 12
                 THEN SubSeq(digits_only, 3, Len(digits_only))
                 ELSE IF Len(digits_only) > 10
                      THEN SubSeq(digits_only, Len(digits_only) - 9, Len(digits_only))
                      ELSE digits_only
         IN  ExtractPrefixedPhones(ms, k + 1,
                 IF Len(core_digits) = 10 /\ core_digits \notin st.seen
                 THEN [seen |-> st.seen \cup {core_digits},
                       phones |-> Append(st.phones, Canonical(core_digits))]
                 ELSE st)

\* the standalone loop without the test against seen_phone_digits
RECURSIVE ExtractStandalonePhones_unseen(_, _, _)
ExtractStandalonePhones_unseen(ms, k, st) ==
    IF k > Len(ms) THEN st
    ELSE LET number == ms[k]
         IN  ExtractStandalonePhones_unseen(ms, k + 1,
                 IF Len(number) = 10 /\ IsDigitStr(number)
                 THEN [seen |-> st.seen \cup {number},
                       phones |-> Append(st.phones, Canonical(number))]
                 ELSE st)

\* lines 230-238
RECURSIVE ExtractStandalonePhones(_, _, _)
ExtractStandalonePhones(ms, k, st) ==
    IF k > Len(ms) THEN st
    ELSE LET number == ms[k]
         IN  ExtractStandalonePhones(ms, k + 1,
                 IF Len(number) = 10 /\ IsDigitStr(number) /\ number \notin st.seen
                 THEN [seen |-> st.seen \cup {number},
                       phones |-> Append(st.phones, Canonical(number))]
                 ELSE st)

\* lines 241-262: the same loop for case ids, policy numbers and order numbers
RECURSIVE ExtractIds(_, _, _)
ExtractIds(ms, k, acc) ==
    IF k > Len(ms) THEN acc
    ELSE LET match_clean == ms[k]
         IN  ExtractIds(ms, k + 1,
                 IF Len(match_clean) >= 3 /\ ~InList(match_clean, acc)
                 THEN Append(acc, match_clean) ELSE acc)

\* lines 265-268
RECURSIVE ExtractKeywords(_, _, _)
ExtractKeywords(text_lower, k, acc) ==
    IF k > Len(suspicious_keywords) THEN acc
    ELSE LET keyword == suspicious_keywords[k]
         IN  ExtractKeywords(text_lower, k + 1,
                 IF Contains(text_lower, keyword) /\ ~InList(keyword, acc)
                 THEN Append(acc, keyword) ELSE acc)

\* extract(text): the field lists of the ExtractedIntelligence it returns
extract(text) ==
    IF text = << >> THEN ExtractedIntelligence
    ELSE LET em == ExtractEmails(FindAll(email_pattern, text), 1,
                                 [emails |-> << >>, prefixes |-> {}])
             ph1 == ExtractPrefixedPhones(AllMatches(phone_patterns_with_prefix, text, 1), 1,
                                          [seen |-> {}, phones |-> << >>])
             ph2 == ExtractStandalonePhones(AllMatches(phone_patterns_standalone, text, 1), 1, ph1)
         IN  [bankAccounts   |-> ExtractBankAccounts(AllMatches(bank_account_patterns, text, 1), 1, << >>),
              upiIds         |-> ExtractUpiIds(FindAll(upi_pattern, text), 1,
                                               em.emails, em.prefixes, << >>),
              phishingLinks  |-> ExtractUrls(FindAll(url_pattern, text), 1, << >>),
              phoneNumbers   |-> ph2.phones,
              emailAddresses |-> em.emails,
              caseIds        |-> ExtractIds(AllMatches(case_id_patterns, text, 1), 1, << >>),
              policyNumbers  |-> ExtractIds(AllMatches(policy_number_patterns, text, 1), 1, << >>),
              orderNumbers   |-> ExtractIds(AllMatches(order_number_patterns, text, 1), 1, << >>),
              suspiciousKeywords |-> ExtractKeywords(Lower(text), 1, << >>)]

\* ------------------------------------------------------------------------
\* IntelligenceService.merge_intelligence
\* ------------------------------------------------------------------------
\* the loop of merge_unique over items[k..], with the set seen and the list result
RECURSIVE MergeScan(_, _, _, _)
MergeScan(items, k, seen, result) ==
    IF k > Len(items) THEN result
    ELSE LET item == items[k]
             item_lower == Lower(item)
         IN  IF item_lower \notin seen
             THEN MergeScan(items, k + 1, seen \cup {item_lower}, Append(result, item))
             ELSE MergeScan(items, k + 1, seen, result)

\* variants of merge_unique with a plausible slip each:
\* seen keyed by the item as spelled (no .lower())
merge_unique_exact(list1, list2) ==
    LET RECURSIVE Scan(_, _, _, _)
        Scan(items, k, seen, result) ==
            IF k > Len(items) THEN result
            ELSE IF items[k] \notin seen
                 THEN Scan(items, k + 1, seen \cup {items[k]}, Append(result, items[k]))
                 ELSE Scan(items, k + 1, seen, result)
    IN  Scan(list1 \o list2, 1, {}, << >>)
\* seen = set(list1), result = list(list1), then only list2 is scanned
merge_unique_seeded(list1, list2) == list1 \o MergeScan(list2, 1, Range(list1), << >>)
\* return list1 + list2
merge_unique_concat(list1, list2) == list1 \o list2

merge_unique(list1, list2) == MergeScan(list1 \o list2, 1, {}, << >>)

\* The object store: heap[id] holds the nine field lists of object id.
\* merge_intelligence(current, new_intel) assigns every field of the object
\* current and returns that same object.
merge_intelligence(h, current, new_intel) ==
    [heap |-> [h EXCEPT ![current] =
                  [f \in Fields |-> merge_unique(h[current][f], h[new_intel][f])]],
     ret  |-> current]

\* a constructor call: a new object holding the given field lists
Alloc(h, obj) == [heap |-> Append(h, obj), ret |-> Len(h) + 1]

\* ------------------------------------------------------------------------
\* Message texts the model draws its inputs from
\* ------------------------------------------------------------------------
\* ""
TxtEmpty ==
    << >>
\* "see http://A.co/p, http://a.co/p."
TxtUrlCase ==
    <<"s","e","e"," ","h","t","t","p",":","/","/","A",".","c","o","/","p",","," ","h","t","t","p",":","/","/","a",".","c","o","/","p",".">>
\* "click here http://a.co/p http://b.co"
TxtUrl ==
    <<"c","l","i","c","k"," ","h","e","r","e"," ","h","t","t","p",":","/","/","a",".","c","o","/","p"," ","h","t","t","p",":","/","/","b",".","c","o">>
\* "pay Scam@YBL or scam@ybl"
TxtUpi ==
    <<"p","a","y"," ","S","c","a","m","@","Y","B","L"," ","o","r"," ","s","c","a","m","@","y","b","l">>
\* "upi scam@ybl otp"
TxtUpiLower ==
    <<"u","p","i"," ","s","c","a","m","@","y","b","l"," ","o","t","p">>
\* "call +91-9876543210 otp"
TxtPhone ==
    <<"c","a","l","l"," ","+","9","1","-","9","8","7","6","5","4","3","2","1","0"," ","o","t","p">>
\* "case ab-1234 CASE AB-1234"
TxtCase ==
    <<"c","a","s","e"," ","a","b","-","1","2","3","4"," ","C","A","S","E"," ","A","B","-","1","2","3","4">>
\* "a/c 123456789 x@fake-b.com"
TxtBank ==
    <<"a","/","c"," ","1","2","3","4","5","6","7","8","9"," ","x","@","f","a","k","e","-","b",".","c","o","m">>
\* "Hello"
TxtHello ==
    <<"H","e","l","l","o">>
\* "bye bye http://c.co"
TxtBye ==
    <<"b","y","e"," ","b","y","e"," ","h","t","t","p",":","/","/","c",".","c","o">>
\* "mail a+b@fake-x.com now"
TxtEmailPlus ==
    <<"m","a","i","l"," ","a","+","b","@","f","a","k","e","-","x",".","c","o","m"," ","n","o","w">>
\* "email offers@fake-amazon-deals.com"
TxtEmailOffer ==
    <<"e","m","a","i","l"," ","o","f","f","e","r","s","@","f","a","k","e","-","a","m","a","z","o","n","-","d","e","a","l","s",".","c","o","m">>
\* "a/c 9876543210 acct 1712345678"
TxtBankPhone ==
    <<"a","/","c"," ","9","8","7","6","5","4","3","2","1","0"," ","a","c","c","t"," ","1","7","1","2","3","4","5","6","7","8">>
\* "+91 98765 43210 9876543210"
TxtPhoneForms ==
    <<"+","9","1"," ","9","8","7","6","5"," ","4","3","2","1","0"," ","9","8","7","6","5","4","3","2","1","0">>
\* "+919876543210 ref 6789012345"
TxtPhonePlain ==
    <<"+","9","1","9","8","7","6","5","4","3","2","1","0"," ","r","e","f"," ","6","7","8","9","0","1","2","3","4","5">>
\* "pay offers@fake"
TxtUpiOffer ==
    <<"p","a","y"," ","o","f","f","e","r","s","@","f","a","k","e">>
Texts == {TxtEmpty, TxtUrlCase, TxtUrl, TxtUpi, TxtUpiLower, TxtPhone, TxtCase, TxtBank,
          TxtHello, TxtBye, TxtEmailPlus, TxtEmailOffer, TxtBankPhone, TxtPhoneForms,
          TxtPhonePlain, TxtUpiOffer}

\* extract is a pure function of the text: its value for every text of the model
ExtractTable == [t \in Texts |-> extract(t)]

\* ------------------------------------------------------------------------
\* State
\* ------------------------------------------------------------------------
VARIABLES
    heap,     \* the ExtractedIntelligence objects alive in the process, by identity
    origin,   \* per object: how its current value came about (history variable)
    call,     \* the last service call: operation, arguments, result, heap before it
    turn,     \* the last extract_cumulative_intel call: request and returned object
    log,      \* the (request, aggregate) of every pipeline call so far, in call order
    extracted, \* what extract returns for each text (extract is a pure function)
    requests, \* per request slot: the handler's position and its local variables
    _session_start_times, \* routes/honeypot.py line 45: sessionId -> first-seen time
    clock,    \* time.time(), in seconds
    posted,   \* the callback payloads the endpoint received, in arrival order
    cerebras_client, \* services/agent.py line 34: whether the Cerebras client was created
    _call_counter,   \* services/agent.py line 44: AgentService's round-robin counter
    llm_calls,  \* the _call_llm calls of AgentService, in the order they started
    detections  \* the scam_detector.analyze calls of the handler's step 1, in order

vars == <<heap, origin, call, turn, log, extracted,
          requests, _session_start_times, clock, posted,
          cerebras_client, _call_counter, llm_calls, detections>>

\* the variables only honeypot_handler and the callback task use
handlerVars == <<requests, _session_start_times, clock, posted>>

\* the variables only the services that call the text-generation providers use
llmVars == <<cerebras_client, _call_counter, llm_calls, detections>>

\* most objects one run of the direct-call specification creates
MaxObjects == 3

\* most merge_intelligence calls one run of the direct-call specification makes
MaxMerges == 2

\* the texts the direct-call specification extracts from
MergeTexts == {TxtEmpty, TxtUrlCase, TxtUrl, TxtUpi, TxtUpiLower}

NoPrev == [op |-> "none", b |-> 0, ret |-> 0]
NoCall == [op |-> "none", a |-> 0, b |-> 0, ret |-> 0, pre |-> << >>, preorigin |-> << >>,
           prev |-> NoPrev, merges |-> 0]
Summary(c) == [op |-> c.op, b |-> c.b, ret |-> c.ret]
NoTurn == [op |-> "none", cur |-> << >>, hist |-> << >>, ret |-> 0, calls |-> 0, pre |-> << >>]

\* no request was received yet
NoRequests ==
    /\ requests = << >>
    /\ _session_start_times = << >>
    /\ clock = 0
    /\ posted = << >>

\* no provider was called yet
NoLlmCalls ==
    /\ cerebras_client = FALSE
    /\ _call_counter = 0
    /\ llm_calls = << >>
    /\ detections = << >>

\* ------------------------------------------------------------------------
\* SpecMerge: a caller holding references to ExtractedIntelligence objects and
\* calling the constructor, extract and merge_intelligence in any order
\* ------------------------------------------------------------------------
InitMerge ==
    /\ heap = << >>
    /\ origin = << >>
    /\ call = NoCall
    /\ turn = NoTurn
    /\ log = << >>
    /\ extracted = ExtractTable
    /\ NoRequests
    /\ NoLlmCalls

\* x = ExtractedIntelligence()
Construct ==
    /\ Len(heap) < MaxObjects
    /\ LET r == Alloc(heap, ExtractedIntelligence)
       IN  /\ heap' = r.heap
           /\ origin' = Append(origin, [kind |-> "new", text |-> << >>])
           /\ call' = [op |-> "new", a |-> 0, b |-> 0, ret |-> r.ret, pre |-> heap,
                       preorigin |-> origin, prev |-> Summary(call), merges |-> call.merges]
           /\ UNCHANGED <<turn, log, extracted, handlerVars, llmVars>>

\* x = service.extract(text)
ExtractCall(text) ==
    /\ Len(heap) < MaxObjects
    /\ LET r == Alloc(heap, extracted[text])
       IN  /\ heap' = r.heap
           /\ origin' = Append(origin, [kind |-> "extract", text |-> text])
           /\ call' = [op |-> "extract", a |-> 0, b |-> 0, ret |-> r.ret, pre |-> heap,
                       preorigin |-> origin, prev |-> Summary(call), merges |-> call.merges]
           /\ UNCHANGED <<turn, log, extracted, handlerVars, llmVars>>

\* r = service.merge_intelligence(a, b), a and b any two references (also the same)
MergeCall(a, b) ==
    /\ a \in 1..Len(heap) /\ b \in 1..Len(heap)
    /\ call.merges < MaxMerges
    /\ LET r == merge_intelligence(heap, a, b)
       IN  /\ heap' = r.heap
           /\ origin' = [origin EXCEPT ![a] = [kind |-> "merged", text |-> << >>]]
           /\ call' = [op |-> "merge", a |-> a, b |-> b, ret |-> r.ret, pre |-> heap,
                       preorigin |-> origin, prev |-> Summary(call),
                       merges |-> call.merges + 1]
           /\ UNCHANGED <<turn, log, extracted, handlerVars, llmVars>>

NextMerge ==
    \/ Construct
    \/ \E text \in MergeTexts : ExtractCall(text)
    \/ \E a \in 1..MaxObjects, b \in 1..MaxObjects : MergeCall(a, b)

SpecMerge == InitMerge /\ [][NextMerge]_vars

\* ------------------------------------------------------------------------
\* routes/honeypot.py: extract_cumulative_intel
\* ------------------------------------------------------------------------
\* a module-level (or default-argument) aggregate reused by every call
SharedAggregate(h) ==
    IF Len(h) > 0 THEN [heap |-> h, ret |-> 1] ELSE Alloc(h, ExtractedIntelligence)

\* line 64: cumulative_intel = ExtractedIntelligence()
NewAggregate(h) == Alloc(h, ExtractedIntelligence)

\* line 68 / 72: intel_service.extract(text) returns a new object
ExtractObject(h, text) == Alloc(h, extracted[text])

\* lines 67-69: the loop over history[k..], cumulative_intel being object cum
RECURSIVE HistoryLoop(_, _, _, _)
HistoryLoop(h, cum, history, k) ==
    IF k > Len(history) THEN [heap |-> h, ret |-> cum]
    ELSE LET msg_intel == ExtractObject(h, history[k])
             merged    == merge_intelligence(msg_intel.heap, cum, msg_intel.ret)
         IN  HistoryLoop(merged.heap, merged.ret, history, k + 1)

\* the increment passed as the aggregate, the aggregate as the increment
extract_cumulative_intel_swapped(h, current_message, history) ==
    LET RECURSIVE Loop(_, _, _)
        Loop(hp, cum, k) ==
            IF k > Len(history) THEN [heap |-> hp, ret |-> cum]
            ELSE LET msg_intel == ExtractObject(hp, history[k])
                     merged    == merge_intelligence(msg_intel.heap, msg_intel.ret, cum)
                 IN  Loop(merged.heap, merged.ret, k + 1)
        c0 == NewAggregate(h)
        looped == Loop(c0.heap, c0.ret, 1)
        current_intel == ExtractObject(looped.heap, current_message)
    IN  merge_intelligence(current_intel.heap, current_intel.ret, looped.ret)

\* the current message merged before the history
extract_cumulative_intel_current_first(h, current_message, history) ==
    LET c0 == NewAggregate(h)
        current_intel == ExtractObject(c0.heap, current_message)
        first == merge_intelligence(current_intel.heap, c0.ret, current_intel.ret)
    IN  HistoryLoop(first.heap, first.ret, history, 1)

\* the aggregate taken from a shared object instead of a new one
extract_cumulative_intel_shared(h, current_message, history) ==
    LET c0 == SharedAggregate(h)
        looped == HistoryLoop(c0.heap, c0.ret, history, 1)
        current_intel == ExtractObject(looped.heap, current_message)
    IN  merge_intelligence(current_intel.heap, looped.ret, current_intel.ret)

\* extract_cumulative_intel(current_message, history, intel_service) run on the
\* heap h: the heap it leaves and the object it returns.  history is the list
\* of the messages' texts, oldest first.
extract_cumulative_intel(h, current_message, history) ==
    LET c0 == NewAggregate(h)
        looped == HistoryLoop(c0.heap, c0.ret, history, 1)
        current_intel == ExtractObject(looped.heap, current_message)
    IN  merge_intelligence(current_intel.heap, looped.ret, current_intel.ret)

\* ------------------------------------------------------------------------
\* SpecPipeline: one process serving extract_cumulative_intel calls for
\* arbitrary requests one after another, and restarting in between
\* ------------------------------------------------------------------------
\* longest conversation history of a request
MaxHistory == 2
\* most pipeline calls in one run
MaxCalls == 2

PipelineTexts == {TxtUrlCase, TxtUrl, TxtUpi}

RECURSIVE SeqsUpTo(_, _)
SeqsUpTo(S, n) ==
    IF n = 0 THEN {<< >>}
    ELSE LET shorter == SeqsUpTo(S, n - 1)
         IN  shorter \cup {Append(s, x) : s \in {q \in shorter : Len(q) = n - 1}, x \in S}

Histories == SeqsUpTo(PipelineTexts, MaxHistory)

InitPipeline ==
    /\ heap = << >>
    /\ origin = << >>
    /\ call = NoCall
    /\ turn = NoTurn
    /\ log = << >>
    /\ extracted = ExtractTable
    /\ NoRequests
    /\ NoLlmCalls

CumulativeCall(current_message, history) ==
    /\ turn.calls < MaxCalls
    /\ LET r == extract_cumulative_intel(heap, current_message, history)
       IN  /\ heap' = r.heap
           /\ turn' = [op |-> "cumulative", cur |-> current_message, hist |-> history,
                       ret |-> r.ret, calls |-> turn.calls + 1, pre |-> heap]
           /\ log' = Append(log, [cur |-> current_message, hist |-> history,
                                   agg |-> r.heap[r.ret], before |-> Len(heap)])
    /\ UNCHANGED <<origin, call, extracted, handlerVars, llmVars>>

\* the process is restarted: every object and every module-level value is gone
Restart ==
    /\ turn.op = "cumulative"
    /\ heap' = << >>
    /\ turn' = [turn EXCEPT !.op = "restart", !.ret = 0, !.pre = << >>]
    /\ UNCHANGED <<origin, call, log, extracted, handlerVars, llmVars>>

NextPipeline ==
    \/ \E current_message \in PipelineTexts, history \in Histories :
          CumulativeCall(current_message, history)
    \/ Restart

SpecPipeline == InitPipeline /\ [][NextPipeline]_vars

\* ------------------------------------------------------------------------
\* SpecExtract: a caller applying extract to single values (texts, None, a
\* number) and extract_cumulative_intel to short conversations
\* ------------------------------------------------------------------------
\* Python values passed as the text argument
PyNone == [type |-> "NoneType", v |-> << >>]
PyStr(s) == [type |-> "str", v |-> s]
PyInt == [type |-> "int", v |-> <<"5">>]

\* the test with "== ''" in place of "not text"
FalsyEmptyOnly(arg) == arg.type = "str" /\ arg.v = << >>

\* line 115: not text
Falsy(arg) == arg.type = "NoneType" \/ arg.v = << >>

\* extract(arg) as a call: raised when an operation of extract fails, which
\* is text.lower() (line 118) on a value that is not a string; the indexing
\* split('@')[1] of lines 150, 155 and 162 is only reached for a text with '@'
extract_call(arg) ==
    IF Falsy(arg) THEN [raised |-> FALSE, intel |-> ExtractedIntelligence]
    ELSE IF arg.type # "str" THEN [raised |-> TRUE, intel |-> ExtractedIntelligence]
    ELSE [raised |-> FALSE, intel |-> extracted[arg.v]]

ExtractTexts == Texts \ {TxtUrlCase, TxtUrl, TxtUpiLower, TxtCase, TxtBye}
ExtractArgs == {PyNone, PyInt} \cup {PyStr(t) : t \in ExtractTexts}

\* the conversations of SpecExtract: one number in several spellings, a bank
\* account, numbers that look like accounts, an email address and a handle
\* that is the start of that address
TurnTexts == {TxtPhone, TxtPhoneForms, TxtPhonePlain, TxtBankPhone, TxtBank, TxtEmailOffer,
              TxtUpiOffer}
TurnHistories == SeqsUpTo(TurnTexts, MaxHistory)

InitExtract ==
    /\ heap = << >>
    /\ origin = << >>
    /\ call = NoCall
    /\ turn = NoTurn
    /\ log = << >>
    /\ extracted = ExtractTable
    /\ NoRequests
    /\ NoLlmCalls

\* x = service.extract(arg)
ExtractValue(arg) ==
    /\ turn.calls < MaxCalls
    /\ LET out == extract_call(arg)
       IN  IF out.raised
           THEN /\ heap' = heap
                /\ turn' = [op |-> "raised", arg |-> arg, cur |-> arg.v, hist |-> << >>,
                            ret |-> 0, calls |-> turn.calls + 1, pre |-> heap]
           ELSE /\ heap' = Append(heap, out.intel)
                /\ turn' = [op |-> "extract", arg |-> arg, cur |-> arg.v, hist |-> << >>,
                            ret |-> Len(heap) + 1, calls |-> turn.calls + 1, pre |-> heap]
    /\ UNCHANGED <<origin, call, log, extracted, handlerVars, llmVars>>

NextExtract ==
    \/ \E arg \in ExtractArgs : ExtractValue(arg)
    \/ \E current_message \in TurnTexts, history \in TurnHistories :
          CumulativeCall(current_message, history)

SpecExtract == InitExtract /\ [][NextExtract]_vars

\* ------------------------------------------------------------------------
\* routes/honeypot.py: detect_scam_type, should_send_callback,
\* build_full_response
\* ------------------------------------------------------------------------
\* the rupee sign, one character
RupeeSign == "RUPEE"

bank_signals ==
    <<<<"b","a","n","k">>,
      <<"a","c","c","o","u","n","t">>,
      <<"s","b","i">>,
      <<"h","d","f","c">>,
      <<"i","c","i","c","i">>,
      <<"a","x","i","s">>,
      <<"p","n","b">>,
      <<"b","l","o","c","k","e","d">>,
      <<"s","u","s","p","e","n","d","e","d">>,
      <<"c","o","m","p","r","o","m","i","s","e","d">>,
      <<"a","/","c">>,
      <<"d","e","b","i","t"," ","c","a","r","d">>,
      <<"c","r","e","d","i","t"," ","c","a","r","d">>,
      <<"a","t","m">>,
      <<"n","e","f","t">>,
      <<"r","t","g","s">>,
      <<"i","m","p","s">>>>
upi_signals ==
    <<<<"u","p","i">>,
      <<"p","a","y","t","m">>,
      <<"p","h","o","n","e","p","e">>,
      <<"g","p","a","y">>,
      <<"g","o","o","g","l","e"," ","p","a","y">>,
      <<"c","a","s","h","b","a","c","k">>,
      <<"r","e","w","a","r","d">>,
      <<"r","e","f","u","n","d">>,
      <<"p","a","y","m","e","n","t">>,
      <<"p","a","y">>,
      <<"r","u","p","e","e">>,
      <<"r","s",".">>,
      <<RupeeSign>>,
      <<"q","r"," ","c","o","d","e">>,
      <<"u","p","i"," ","i","d">>,
      <<"u","p","i"," ","p","i","n">>>>
phishing_signals ==
    <<<<"c","l","i","c","k">>,
      <<"l","i","n","k">>,
      <<"h","t","t","p">>,
      <<"w","w","w",".">>,
      <<"u","r","l">>,
      <<".","c","o","m">>,
      <<"o","f","f","e","r">>,
      <<"p","r","i","z","e">>,
      <<"l","o","t","t","e","r","y">>,
      <<"w","i","n","n","e","r">>,
      <<"s","e","l","e","c","t","e","d">>,
      <<"c","l","a","i","m">>,
      <<"f","r","e","e">>,
      <<"i","p","h","o","n","e">>,
      <<"s","a","m","s","u","n","g">>,
      <<"a","m","a","z","o","n">>,
      <<"f","l","i","p","k","a","r","t">>,
      <<"d","e","a","l">>>>
investment_signals ==
    <<<<"i","n","v","e","s","t">>,
      <<"p","r","o","f","i","t">>,
      <<"r","e","t","u","r","n">>,
      <<"s","t","o","c","k">>,
      <<"t","r","a","d","i","n","g">>,
      <<"c","r","y","p","t","o">>,
      <<"b","i","t","c","o","i","n">>,
      <<"f","o","r","e","x">>,
      <<"m","u","t","u","a","l"," ","f","u","n","d">>,
      <<"g","u","a","r","a","n","t","e","e","d">>,
      <<"d","o","u","b","l","e">>>>
end_signals ==
    <<<<"b","y","e">>,
      <<"g","o","o","d","b","y","e">>,
      <<"l","e","a","v","e"," ","m","e">>,
      <<"s","t","o","p">>,
      <<"d","o","n","'","t"," ","m","e","s","s","a","g","e">>,
      <<"w","r","o","n","g"," ","n","u","m","b","e","r">>,
      <<"i"," ","w","i","l","l"," ","r","e","p","o","r","t">>,
      <<"b","l","o","c","k","i","n","g"," ","y","o","u">>,
      <<"t","h","i","s"," ","i","s"," ","w","a","s","t","e">>,
      <<"y","o","u"," ","a","r","e"," ","f","a","k","e">>,
      <<"l","a","s","t"," ","c","h","a","n","c","e">>,
      <<"f","i","n","a","l"," ","w","a","r","n","i","n","g">>>>

ScamTypes == <<"bank_fraud", "upi_fraud", "phishing", "investment_scam">>

\* lines 85-86: " " + msg.text.lower() for history[k..]
RECURSIVE AllText(_, _)
AllText(history, k) ==
    IF k > Len(history) THEN << >>
    ELSE <<" ">> \o Lower(history[k]) \o AllText(history, k + 1)

\* sum(1 for s in signals if s in all_text)
Score(signals, all_text) ==
    Cardinality({k \in 1..Len(signals) : Contains(all_text, signals[k])})

\* detect_scam_type(message, history): the first type with the highest score
detect_scam_type(message, history) ==
    LET all_text == Lower(message) \o AllText(history, 1)
        scores == <<Score(bank_signals, all_text), Score(upi_signals, all_text),
                    Score(phishing_signals, all_text), Score(investment_signals, all_text)>>
        best == CHOOSE i \in 1..4 :
                    /\ \A j \in 1..4 : scores[j] <= scores[i]
                    /\ \A j \in 1..(i - 1) : scores[j] < scores[i]
    IN  IF scores[best] = 0 THEN "bank_fraud" ELSE ScamTypes[best]

\* should_send_callback without the test of is_scam
should_send_callback_any(is_scam, total_messages, has_significant_intel, current_message) ==
    IF total_messages >= 6 THEN TRUE
    ELSE IF \E k \in 1..Len(end_signals) : Contains(Lower(current_message), end_signals[k])
         THEN TRUE
    ELSE IF has_significant_intel /\ total_messages >= 4 THEN TRUE
    ELSE FALSE

\* should_send_callback with the message-count threshold at 20
should_send_callback_late(is_scam, total_messages, has_significant_intel, current_message) ==
    IF ~is_scam THEN FALSE
    ELSE IF total_messages >= 20 THEN TRUE
    ELSE IF \E k \in 1..Len(end_signals) : Contains(Lower(current_message), end_signals[k])
         THEN TRUE
    ELSE IF has_significant_intel /\ total_messages >= 4 THEN TRUE
    ELSE FALSE

\* should_send_callback(is_scam, total_messages, has_significant_intel, current_message)
should_send_callback(is_scam, total_messages, has_significant_intel, current_message) ==
    IF ~is_scam THEN FALSE
    ELSE IF total_messages >= 6 THEN TRUE
    ELSE IF \E k \in 1..Len(end_signals) : Contains(Lower(current_message), end_signals[k])
         THEN TRUE
    ELSE IF has_significant_intel /\ total_messages >= 4 THEN TRUE
    ELSE FALSE

Max(a, b) == IF a >= b THEN a ELSE b

\* the five fields build_full_response reports, in the order of its summary
ResponseFields == <<"phoneNumbers", "bankAccounts", "upiIds", "phishingLinks", "emailAddresses">>

\* the eight fields send_final_result reports
PayloadFields == {"phoneNumbers", "bankAccounts", "upiIds", "phishingLinks",
                  "emailAddresses", "caseIds", "policyNumbers", "orderNumbers"}

\* models.py: HoneypotResponse.extractedIntelligence default
DefaultIntelligence == [f \in PayloadFields |-> << >>]

\* agentNotes, kept as the values the text is formatted from
Notes(kind, confidence, scam_type, reasoning, intel_summary, total_messages, duration_seconds) ==
    [kind |-> kind, confidence |-> confidence, scam_type |-> scam_type,
     reasoning |-> reasoning, intel_summary |-> intel_summary,
     total_messages |-> total_messages, duration_seconds |-> duration_seconds]

PlainNotes(kind) == Notes(kind, 0, "", "", << >>, 0, 0)

\* models.py: HoneypotResponse with the fields the handler sets
HoneypotResponse(reply, scamDetected, scamType, extractedIntelligence, total_messages, duration_seconds, agentNotes) ==
    [code |-> 200, status |-> "success", reply |-> reply, scamDetected |-> scamDetected,
     scamType |-> scamType, extractedIntelligence |-> extractedIntelligence,
     engagementMetrics |-> [totalMessagesExchanged |-> total_messages,
                            engagementDurationSeconds |-> duration_seconds],
     agentNotes |-> agentNotes]

\* no response was produced yet
NoResponse ==
    [code |-> 0, status |-> "", reply |-> "", scamDetected |-> FALSE, scamType |-> "",
     extractedIntelligence |-> DefaultIntelligence,
     engagementMetrics |-> [totalMessagesExchanged |-> 0, engagementDurationSeconds |-> 0],
     agentNotes |-> PlainNotes("")]

\* a dependency that accepts every key
verify_api_key_any(key) == TRUE

\* lines 48-52: verify_api_key passes; key is (x_api_key = settings.HONEYPOT_API_KEY)
verify_api_key(key) == key

\* lines 50-51: HTTPException(status_code=401, detail="Invalid API Key")
Unauthorized == [NoResponse EXCEPT !.code = 401, !.status = "Invalid API Key"]

\* lines 266-271: the response to a body that is not a JSON object
JsonErrorResponse ==
    HoneypotResponse("Hello! How may I help you?", TRUE, "", DefaultIntelligence, 0, 0,
                     PlainNotes("JSON parse error - returned default response"))

\* the reply of the framework to an exception that leaves the handler
InternalServerError == [NoResponse EXCEPT !.code = 500, !.status = "Internal Server Error"]

\* lines 422-427: the response of the global exception handler
ErrorResponse ==
    HoneypotResponse("Hello! How may I help you today?", TRUE, "", DefaultIntelligence, 0, 0,
                     PlainNotes("Error occurred but defaulting to scam detection"))

\* lines 212-224: the non-empty fields, each with its label's field and entries
RECURSIVE IntelSummary(_, _)
IntelSummary(cumulative_intel, k) ==
    IF k > Len(ResponseFields) THEN << >>
    ELSE (IF cumulative_intel[ResponseFields[k]] # << >>
          THEN <<[field |-> ResponseFields[k], entries |-> cumulative_intel[ResponseFields[k]]]>>
          ELSE << >>) \o IntelSummary(cumulative_intel, k + 1)

\* lines 185-194 and 384-386: the reported duration, elapsed being the seconds
\* since the session's first request
ReportedDuration(total_messages, elapsed) ==
    IF total_messages >= 4 /\ elapsed < 61 THEN Max(elapsed, total_messages * 15) ELSE elapsed

\* build_full_response(...), cumulative_intel being the object's field lists,
\* read with _session_start_times and the clock as they are at the call
build_full_response(reply, is_scam, scam_type, cumulative_intel, total_messages, session_id, scam_reasoning, scam_confidence) ==
    LET elapsed == IF session_id \in DOMAIN _session_start_times
                   THEN clock - _session_start_times[session_id] ELSE 0
        duration_seconds == ReportedDuration(total_messages, elapsed)
        intel_dict == [f \in Range(ResponseFields) |-> cumulative_intel[f]]
    IN  HoneypotResponse(reply, is_scam, scam_type, intel_dict, total_messages,
                         duration_seconds,
                         Notes("SCAM DETECTED", scam_confidence, scam_type, scam_reasoning,
                               IntelSummary(cumulative_intel, 1), total_messages,
                               duration_seconds))

\* ------------------------------------------------------------------------
\* services/callback.py: send_final_result
\* ------------------------------------------------------------------------
NoTask ==
    [state |-> "none", session_id |-> "", scam_type |-> "", total_messages |-> 0,
     duration_seconds |-> 0, intel |-> 0, agent_notes |-> PlainNotes("")]

NoPayload ==
    [sessionId |-> "", status |-> "", scamDetected |-> FALSE, scamType |-> "",
     confidenceLevel |-> 0, totalMessagesExchanged |-> 0, engagementDurationSeconds |-> 0,
     extractedIntelligence |-> DefaultIntelligence, agentNotes |-> PlainNotes("")]

\* lines 50-73: the payload, built from the object intel as it is in heap h when
\* the task runs; confidence_level keeps its default 0.95
CallbackPayload(h, task) ==
    [sessionId |-> task.session_id, status |-> "success", scamDetected |-> TRUE,
     scamType |-> task.scam_type, confidenceLevel |-> 95,
     totalMessagesExchanged |-> task.total_messages,
     engagementDurationSeconds |-> task.duration_seconds,
     extractedIntelligence |-> [f \in PayloadFields |-> h[task.intel][f]],
     agentNotes |-> task.agent_notes]

\* ------------------------------------------------------------------------
\* routes/honeypot.py: honeypot_handler.  Spec: requests handled concurrently
\* on one event loop; a handler runs without interruption from one await to
\* the next, and the callback task runs after its response was returned.
\* ------------------------------------------------------------------------
\* requests received in one run
MaxRequests == 2
\* seconds the clock advances in one step, and the latest time of a run
ClockStep == 61
MaxClock == 61

\* JSON values of a request body: j is the value's type, t the type of an
\* object's "text" member ("none" when absent or empty), v the string
JObject(text) == [j |-> "object", t |-> IF text = << >> THEN "none" ELSE "str", v |-> text]
JObjectNumText == [j |-> "object", t |-> "num", v |-> << >>]
JString(s) == [j |-> "string", t |-> "none", v |-> s]
JNumber == [j |-> "number", t |-> "none", v |-> <<"5">>]

\* a request: key is (x-api-key = settings.HONEYPOT_API_KEY), json is (the body
\* parses to a JSON object), sessionId is "" when absent
Body(key, json, sessionId, message, conversationHistory) ==
    [key |-> key, json |-> json, sessionId |-> sessionId, message |-> message,
     conversationHistory |-> conversationHistory]

\* the bodies the requests are drawn from: a wrong key; a body that is not
\* JSON; a later turn of session s1; a first turn without sessionId ending the
\* conversation; a first turn of s1 with an empty text; a current text that is
\* a number; a history text that is a number; the second, third and fourth
\* turn of one conversation (two, four and six history messages), with
\* nothing to extract and no end signal
Bodies ==
    {Body(FALSE, TRUE, "s1", JObject(TxtUpi), << >>),
     Body(TRUE, FALSE, "", JObject(TxtEmpty), << >>),
     Body(TRUE, TRUE, "s1", JObject(TxtUpi), <<JObject(TxtPhone), JNumber, JObject(TxtUrl)>>),
     Body(TRUE, TRUE, "", JString(TxtBye), << >>),
     Body(TRUE, TRUE, "s1", JObject(TxtEmpty), << >>),
     Body(TRUE, TRUE, "s1", JObjectNumText, <<JObject(TxtPhone)>>),
     Body(TRUE, TRUE, "s1", JObject(TxtUpi), <<JObject(TxtPhone), JObjectNumText>>),
     Body(TRUE, TRUE, "s1", JObject(TxtHello), <<JObject(TxtHello), JObject(TxtHello)>>),
     Body(TRUE, TRUE, "s1", JObject(TxtEmpty),
          <<JObject(TxtHello), JObject(TxtHello), JObject(TxtHello), JObject(TxtHello)>>),
     Body(TRUE, TRUE, "s1", JObject(TxtHello),
          <<JObject(TxtHello), JObject(TxtHello), JObject(TxtHello), JObject(TxtHello),
            JObject(TxtEmpty), JObject(TxtHello)>>)}

\* lines 281-294: current_msg; str is FALSE when the value is not a string
CurrentMsg(body) ==
    LET message_data == body.message
        first == IF message_data.j = "object"
                 THEN (IF message_data.t = "none" THEN [str |-> TRUE, v |-> << >>]
                       ELSE [str |-> message_data.t = "str", v |-> message_data.v])
                 ELSE [str |-> TRUE, v |-> message_data.v]
    IN  IF first.str /\ first.v = << >> THEN [str |-> TRUE, v |-> TxtHello] ELSE first

\* lines 297-305: the texts of the Message objects built from history_data[k..];
\* ok is FALSE when a Message cannot be built (its text is not a string)
RECURSIVE ParseHistory(_, _)
ParseHistory(history_data, k) ==
    IF k > Len(history_data) THEN [ok |-> TRUE, history |-> << >>]
    ELSE LET h == history_data[k]
             rest == ParseHistory(history_data, k + 1)
         IN  IF h.j # "object" THEN rest
             ELSE IF h.t = "num" THEN [ok |-> FALSE, history |-> << >>]
             ELSE [ok |-> rest.ok,
                   history |-> <<IF h.t = "str" THEN h.v ELSE << >> >> \o rest.history]

\* the results scam_detector.analyze can give: a verdict, or an exception
DetectOutcomes ==
    {[raised |-> FALSE, is_scam |-> TRUE, confidence |-> 90, reasoning |-> "detector"],
     [raised |-> FALSE, is_scam |-> FALSE, confidence |-> 75, reasoning |-> "detector"],
     [raised |-> TRUE, is_scam |-> FALSE, confidence |-> 0, reasoning |-> ""]}

\* session tracking that stores the time of every request
TrackSessionStart_latest(times, session_id, now) ==
    [sid \in DOMAIN times \cup {session_id} |-> IF sid = session_id THEN now ELSE times[sid]]

\* lines 277-278: the session's start time is stored when the session is new
TrackSessionStart(times, session_id, now) ==
    IF session_id \in DOMAIN times THEN times ELSE times @@ (session_id :> now)

\* models.py: ScamAnalysis with the fields the handler reads; confidence in
\* hundredths
ScamAnalysis(is_scam, confidence, reasoning) ==
    [is_scam |-> is_scam, confidence |-> confidence, reasoning |-> reasoning]

\* lines 317-325: the analysis the handler uses when scam_detector.analyze raised
DetectionErrorFallback ==
    ScamAnalysis(TRUE, 75, "Scam detection service error - defaulting to scam for safety")

NoAnalysis == [is_scam |-> FALSE, confidence |-> 0, reasoning |-> ""]

IdleRequest ==
    [pc |-> "idle", body |-> Body(FALSE, FALSE, "", JNumber, << >>), session_id |-> "",
     current_msg |-> << >>, history |-> << >>, scam_analysis |-> NoAnalysis,
     cumulative_intel |-> 0, has_significant_intel |-> FALSE, scam_type |-> "",
     response |-> NoResponse, task |-> NoTask, payload |-> NoPayload]

Init ==
    /\ heap = << >>
    /\ origin = << >>
    /\ call = NoCall
    /\ turn = NoTurn
    /\ log = << >>
    /\ extracted = ExtractTable
    /\ requests = [r \in 1..MaxRequests |-> IdleRequest]
    /\ _session_start_times = << >>
    /\ clock = 0
    /\ posted = << >>
    /\ NoLlmCalls

\* request r arrives: verify_api_key, then lines 258-312 up to the call of
\* scam_detector.analyze
Arrive(r, body) ==
    /\ requests[r].pc = "idle"
    /\ (r > 1 => requests[r - 1].pc # "idle")
    /\ IF ~verify_api_key(body.key)
       THEN /\ requests' = [requests EXCEPT ![r] =
                               [@ EXCEPT !.pc = "done", !.body = body, !.response = Unauthorized]]
            /\ UNCHANGED _session_start_times
       ELSE IF ~body.json
       THEN /\ requests' = [requests EXCEPT ![r] =
                               [@ EXCEPT !.pc = "done", !.body = body,
                                         !.response = JsonErrorResponse]]
            /\ UNCHANGED _session_start_times
       ELSE LET session_id == IF body.sessionId = "" THEN "test-session" ELSE body.sessionId
                current_msg == CurrentMsg(body)
                parsed == ParseHistory(body.conversationHistory, 1)
            IN  /\ _session_start_times' =
                       TrackSessionStart(_session_start_times, session_id, clock)
                /\ requests' = [requests EXCEPT ![r] =
                       IF current_msg.str /\ parsed.ok
                       THEN [@ EXCEPT !.pc = "detecting", !.body = body,
                                      !.session_id = session_id,
                                      !.current_msg = current_msg.v,
                                      !.history = parsed.history]
                       ELSE [@ EXCEPT !.pc = "done", !.body = body,
                                      !.session_id = session_id,
                                      !.response = ErrorResponse]]
    /\ UNCHANGED <<heap, origin, call, turn, log, extracted, llmVars, clock, posted>>

\* scam_detector.analyze returns or raises (lines 315-325), then steps 2 and 3
\* (lines 331-350) up to the call of agent_service.generate_response
Detect(r, outcome) ==
    /\ requests[r].pc = "detecting"
    /\ LET req == requests[r]
           scam_analysis ==
               IF outcome.raised THEN DetectionErrorFallback
               ELSE [is_scam |-> outcome.is_scam, confidence |-> outcome.confidence,
                     reasoning |-> outcome.reasoning]
           cumulative_intel == extract_cumulative_intel(heap, req.current_msg, req.history)
           fields == cumulative_intel.heap[cumulative_intel.ret]
       IN  /\ heap' = cumulative_intel.heap
           /\ requests' = [requests EXCEPT ![r] =
                  [@ EXCEPT !.pc = "replying",
                            !.scam_analysis = scam_analysis,
                            !.cumulative_intel = cumulative_intel.ret,
                            !.has_significant_intel =
                                \E k \in 1..Len(ResponseFields) : fields[ResponseFields[k]] # << >>,
                            !.scam_type = detect_scam_type(req.current_msg, req.history)]]
    /\ UNCHANGED <<origin, call, turn, log, extracted, llmVars,
                   _session_start_times, clock, posted>>

\* agent_service.generate_response returns or raises (lines 353-365), then
\* steps 5 to 7 (lines 370-417): the callback task is added, the response built
Reply(r, replied) ==
    /\ requests[r].pc = "replying"
    /\ LET req == requests[r]
           agent_reply == IF replied THEN "reply of the agent"
                          ELSE "ji mujhe samajh nahi aa raha.. aap dobara batao na.."
           total_messages == Len(req.history) + 2
           should_callback == should_send_callback(req.scam_analysis.is_scam, total_messages,
                                                   req.has_significant_intel, req.current_msg)
           elapsed == IF req.session_id \in DOMAIN _session_start_times
                      THEN clock - _session_start_times[req.session_id] ELSE 0
           task == [state |-> "scheduled", session_id |-> req.session_id,
                    scam_type |-> req.scam_type, total_messages |-> total_messages,
                    duration_seconds |-> ReportedDuration(total_messages, elapsed),
                    intel |-> req.cumulative_intel,
                    agent_notes |-> Notes("SCAM DETECTED", req.scam_analysis.confidence,
                                          req.scam_type, req.scam_analysis.reasoning,
                                          << >>, 0, 0)]
           response == build_full_response(agent_reply, req.scam_analysis.is_scam,
                                           req.scam_type, heap[req.cumulative_intel],
                                           total_messages, req.session_id,
                                           req.scam_analysis.reasoning,
                                           req.scam_analysis.confidence)
       IN  requests' = [requests EXCEPT ![r] =
               [@ EXCEPT !.pc = "done", !.response = response,
                         !.task = IF should_callback THEN task ELSE NoTask]]
    /\ UNCHANGED <<heap, origin, call, turn, log, extracted, llmVars,
                   _session_start_times, clock, posted>>

\* the background task starts after the response was returned:
\* send_final_result builds its payload and starts the POST (callback.py 50-97)
RunCallback(r) ==
    /\ requests[r].pc = "done"
    /\ requests[r].task.state = "scheduled"
    /\ requests' = [requests EXCEPT ![r] =
           [@ EXCEPT !.task.state = "posting",
                     !.payload = CallbackPayload(heap, requests[r].task)]]
    /\ UNCHANGED <<heap, origin, call, turn, log, extracted, llmVars,
                   _session_start_times, clock, posted>>

\* the POST reaches the endpoint, or fails (timeout, HTTP error, connection
\* error: callback.py 98-114)
PostResult(r, delivered) ==
    /\ requests[r].task.state = "posting"
    /\ requests' = [requests EXCEPT ![r] =
           [@ EXCEPT !.task.state = IF delivered THEN "delivered" ELSE "failed"]]
    /\ posted' = IF delivered THEN Append(posted, [request |-> r, payload |-> requests[r].payload])
                 ELSE posted
    /\ UNCHANGED <<heap, origin, call, turn, log, extracted, llmVars, _session_start_times, clock>>

\* time passes
Tick ==
    /\ clock + ClockStep <= MaxClock
    /\ clock' = clock + ClockStep
    /\ UNCHANGED <<heap, origin, call, turn, log, extracted, llmVars,
                   requests, _session_start_times, posted>>

Next ==
    \/ \E r \in 1..MaxRequests, body \in Bodies : Arrive(r, body)
    \/ \E r \in 1..MaxRequests, outcome \in DetectOutcomes : Detect(r, outcome)
    \/ \E r \in 1..MaxRequests, replied \in BOOLEAN : Reply(r, replied)
    \/ \E r \in 1..MaxRequests : RunCallback(r)
    \/ \E r \in 1..MaxRequests, delivered \in BOOLEAN : PostResult(r, delivered)
    \/ Tick

Spec == Init /\ [][Next]_vars

\* ------------------------------------------------------------------------
\* services/scam_detector.py: ScamDetectorService.analyze, and step 1 of
\* honeypot_handler around it.  SpecAnalyze: the handler's step 1 run on
\* messages and provider replies of every kind.
\* ------------------------------------------------------------------------
\* analyze calls in one run
MaxDetections == 2

\* the value of a member of the JSON object an LLM replied: absent, null, a
\* boolean, a string, a number (in hundredths)
Absent == [t |-> "absent", s |-> "", n |-> 0]
JNull == [t |-> "null", s |-> "", n |-> 0]
JBool(b) == [t |-> "bool", s |-> "", n |-> IF b THEN 1 ELSE 0]
JStr(s) == [t |-> "str", s |-> s, n |-> 0]
JNum(n) == [t |-> "num", s |-> "", n |-> n]

\* the text a provider replied: json is "invalid" for a text json.loads
\* rejects, "array" for JSON that is not an object, "object" for an object
\* with the members is_scam and confidence; rest_valid is whether its
\* detected_patterns fits the ScamAnalysis field (absent, or a list of strings)
Content(json, is_scam, confidence, rest_valid) ==
    [json |-> json, is_scam |-> is_scam, confidence |-> confidence, rest_valid |-> rest_valid]

\* None
NoContent == Content("none", Absent, Absent, TRUE)

Contents ==
    {Content("invalid", Absent, Absent, TRUE), Content("array", Absent, Absent, TRUE)} \cup
    {Content("object", is_scam, confidence, rest_valid) :
        is_scam \in {Absent, JNull, JBool(TRUE), JBool(FALSE), JStr("yes"), JStr("no")},
        confidence \in {Absent, JNull, JStr("high"), JNum(0), JNum(59), JNum(60), JNum(100),
                        JNum(150)},
        rest_valid \in BOOLEAN}

\* what awaiting a provider can give: a response with content, a response
\* without content, an exception, a timeout
Replied(content) == [kind |-> "content", v |-> content]
Failed(kind) == [kind |-> kind, v |-> NoContent]
Failures == {Failed("none"), Failed("error"), Failed("timeout")}

\* lines 302-348: _try_groq_detection and _try_cerebras_detection return the
\* content (Cerebras: the JSON object found in it) or None; failures are caught
_try_detection(outcome) == IF outcome.kind = "content" THEN outcome.v ELSE NoContent

\* lines 295-300: the first content in the order the providers are tried
_call_llm_for_detection(outcomes) ==
    IF _try_detection(outcomes[1]) # NoContent THEN _try_detection(outcomes[1])
    ELSE _try_detection(outcomes[2])

\* bool(x) of a member value
Truthy(x) == (x.t = "bool" /\ x.n = 1) \/ (x.t = "str" /\ x.s # "") \/ (x.t = "num" /\ x.n # 0)

\* a threshold that lets every verdict through
BelowThreshold_never(confidence) == FALSE

\* line 248: confidence < 0.6
BelowThreshold(confidence) == confidence < 60

\* a default that treats an inconclusive analysis as legitimate
HeuristicDefault_legit ==
    ScamAnalysis(FALSE, 70, "Analysis inconclusive - treating as potential scam for safety")

\* lines 265-270
HeuristicDefault ==
    ScamAnalysis(TRUE, 70, "Analysis inconclusive - treating as potential scam for safety")

Returned(analysis) == [raised |-> FALSE, analysis |-> analysis]
Raised == [raised |-> TRUE, analysis |-> NoAnalysis]

\* lines 243-257: the reply parsed as JSON.  result.get raises on JSON that
\* is not an object, the comparison raises on a confidence that is not a
\* number, and ScamAnalysis raises on values its fields do not accept
\* (is_scam: a boolean or a string such as "yes", "no"; confidence: a number
\* from 0.0 to 1.0)
AnalysisOfReply(result) ==
    IF result.json # "object" THEN Raised
    ELSE LET confidence == IF result.confidence.t = "absent" THEN JNum(0) ELSE result.confidence
             is_scam == IF result.is_scam.t = "absent" THEN JBool(FALSE) ELSE result.is_scam
         IN  IF Truthy(is_scam) /\ confidence.t # "num" THEN Raised
             ELSE LET low == Truthy(is_scam) /\ BelowThreshold(confidence.n)
                      flag == IF low THEN JBool(FALSE) ELSE is_scam
                  IN  IF \/ flag.t \notin {"bool", "str"}
                         \/ confidence.t # "num" \/ confidence.n < 0 \/ confidence.n > 100
                         \/ ~result.rest_valid
                      THEN Raised
                      ELSE Returned(ScamAnalysis(
                               IF flag.t = "bool" THEN flag.n = 1 ELSE flag.s = "yes",
                               confidence.n,
                               IF low THEN "Low confidence - treating as non-scam"
                               ELSE "reasoning of the LLM"))

\* lines 158-270: analyze; has_scam_signals and is_automated are what the
\* pattern layers find in the message, outcomes what the providers give in
\* the order they are tried
analyze(has_scam_signals, is_automated, outcomes) ==
    IF has_scam_signals
    THEN Returned(ScamAnalysis(TRUE, 90,
                               "Strong scam indicators detected: urgency + threat language"))
    ELSE IF is_automated
    THEN Returned(ScamAnalysis(FALSE, 75, "Message appears to be an automated notification"))
    ELSE LET text_response == _call_llm_for_detection(outcomes)
         IN  IF text_response # NoContent /\ text_response.json # "invalid"
             THEN AnalysisOfReply(text_response)
             ELSE Returned(HeuristicDefault)

\* the messages and replies of SpecAnalyze: a message the pattern layers
\* decide; an undecided message with every content from the first provider,
\* with every content from the second after the first raised, and with two
\* failing providers
DetectionInputs ==
    {[has_scam_signals |-> h, is_automated |-> a,
      outcomes |-> <<Failed("none"), Replied(Content("object", JBool(FALSE), JNum(100), TRUE))>>] :
        h \in BOOLEAN, a \in BOOLEAN} \cup
    {[has_scam_signals |-> FALSE, is_automated |-> FALSE, outcomes |-> o] :
        o \in {<<Replied(c), Failed("none")>> : c \in Contents} \cup
              {<<Failed("error"), Replied(c)>> : c \in Contents} \cup
              (Failures \X Failures)}

InitAnalyze ==
    /\ heap = << >>
    /\ origin = << >>
    /\ call = NoCall
    /\ turn = NoTurn
    /\ log = << >>
    /\ extracted = << >>
    /\ NoRequests
    /\ NoLlmCalls

\* honeypot.py lines 315-325: step 1 of the handler, analyze returning or
\* raising; scam_analysis is what the rest of the turn uses
DetectScam(input) ==
    /\ Len(detections) < MaxDetections
    /\ LET out == analyze(input.has_scam_signals, input.is_automated, input.outcomes)
       IN  detections' = Append(detections,
               [input |-> input, out |-> out,
                scam_analysis |-> IF out.raised THEN DetectionErrorFallback ELSE out.analysis])
    /\ UNCHANGED <<heap, origin, call, turn, log, extracted, handlerVars, cerebras_client,
                   _call_counter, llm_calls>>

NextAnalyze == \E input \in DetectionInputs : DetectScam(input)

SpecAnalyze == InitAnalyze /\ [][NextAnalyze]_vars

\* ------------------------------------------------------------------------
\* services/agent.py: AgentService._call_llm.  SpecLlm: calls of one
\* AgentService running concurrently on one event loop; a call runs without
\* interruption from one await to the next.
\* ------------------------------------------------------------------------
\* _call_llm calls started in one run
MaxLlmCalls == 3

\* what awaiting chat.completions.create under asyncio.wait_for can give: a
\* response whose message content is a string ("ok " and "  " here) or None,
\* an exception (an API error, or a response without choices), a timeout
LlmOutcomes ==
    {[kind |-> "content", v |-> <<"o", "k", " ">>],
     [kind |-> "content", v |-> <<" ", " ">>],
     [kind |-> "content", v |-> << >>],
     [kind |-> "none", v |-> << >>],
     [kind |-> "error", v |-> << >>],
     [kind |-> "timeout", v |-> << >>]}

\* the provider was not called: _try_cerebras without a client (lines 134-135)
NotCalled == [kind |-> "not called", v |-> << >>]

\* s.lstrip() and s.strip() of whitespace
RECURSIVE LStrip(_)
LStrip(s) == IF s # << >> /\ s[1] \in Spaces THEN LStrip(SubSeq(s, 2, Len(s))) ELSE s
strip(s) == RStrip(LStrip(s), Spaces)

\* a provider call whose failures are not caught
_try_provider_uncaught(outcome) ==
    IF outcome.kind = "content" /\ outcome.v # << >>
    THEN [raised |-> FALSE, value |-> PyStr(strip(outcome.v))]
    ELSE [raised |-> outcome.kind \in {"error", "timeout"}, value |-> PyNone]

\* lines 111-130 and 136-153, the body of _try_groq and of _try_cerebras with
\* a client: the stripped content when there is content, else None; a timeout
\* and every exception are caught
_try_provider(outcome) ==
    IF outcome.kind = "content" /\ outcome.v # << >>
    THEN [raised |-> FALSE, value |-> PyStr(strip(outcome.v))]
    ELSE [raised |-> FALSE, value |-> PyNone]

\* a provider order that ignores the counter
ProviderOrder_groq_first(client, counter) == <<"Groq", "Cerebras">>

\* lines 89-98: the providers in the order they are tried
ProviderOrder(client, counter) ==
    IF client /\ counter % 2 = 0 THEN <<"Cerebras", "Groq">> ELSE <<"Groq", "Cerebras">>

\* the call awaits its provider k; tried holds the providers tried so far
LlmCall(providers) ==
    [pc |-> "trying", providers |-> providers, k |-> 1, tried |-> << >>, result |-> PyNone]

Tried(name, outcome, value) == [name |-> name, outcome |-> outcome, value |-> value]

InitLlm ==
    /\ heap = << >>
    /\ origin = << >>
    /\ call = NoCall
    /\ turn = NoTurn
    /\ log = << >>
    /\ extracted = << >>
    /\ NoRequests
    /\ cerebras_client \in BOOLEAN
    /\ _call_counter = 0
    /\ llm_calls = << >>
    /\ detections = << >>

\* lines 86-102: a call starts, counts itself, fixes its provider order and
\* awaits the first provider (Groq, or Cerebras only when it has a client)
StartCall ==
    /\ Len(llm_calls) < MaxLlmCalls
    /\ _call_counter' = _call_counter + 1
    /\ llm_calls' = Append(llm_calls, LlmCall(ProviderOrder(cerebras_client, _call_counter')))
    /\ UNCHANGED <<heap, origin, call, turn, log, extracted, handlerVars, cerebras_client,
                   detections>>

\* lines 102-109: the provider call c awaits ends with outcome; the call
\* returns its result, or goes on to the second provider, which returns None
\* at once when it is Cerebras without a client
ProviderReturns(c, outcome) ==
    /\ c <= Len(llm_calls)
    /\ llm_calls[c].pc = "trying"
    /\ LET this == llm_calls[c]
           out == _try_provider(outcome)
           tried == Append(this.tried, Tried(this.providers[this.k], outcome, out.value))
       IN  llm_calls' = [llm_calls EXCEPT ![c] =
               IF out.raised
               THEN [this EXCEPT !.pc = "raised", !.tried = tried]
               ELSE IF ~Falsy(out.value)
               THEN [this EXCEPT !.pc = "returned", !.tried = tried, !.result = out.value]
               ELSE IF this.k = Len(this.providers)
               THEN [this EXCEPT !.pc = "returned", !.tried = tried, !.result = PyNone]
               ELSE IF this.providers[this.k + 1] = "Cerebras" /\ ~cerebras_client
               THEN [this EXCEPT !.pc = "returned", !.result = PyNone,
                                 !.tried = Append(tried, Tried("Cerebras", NotCalled, PyNone))]
               ELSE [this EXCEPT !.k = this.k + 1, !.tried = tried]]
    /\ UNCHANGED <<heap, origin, call, turn, log, extracted, handlerVars, cerebras_client,
                   _call_counter, detections>>

NextLlm ==
    \/ StartCall
    \/ \E c \in 1..MaxLlmCalls, outcome \in LlmOutcomes : ProviderReturns(c, outcome)

SpecLlm == InitLlm /\ [][NextLlm]_vars

\* ------------------------------------------------------------------------
\* Properties of merge_intelligence and extract (checked under SpecMerge)
\* ------------------------------------------------------------------------
\* no two entries of l are equal ignoring case
CIUnique(l) == \A i \in 1..Len(l) : \A j \in 1..Len(l) : i < j => Lower(l[i]) # Lower(l[j])

\* the entries of c at the indices in keep, in order
RECURSIVE KeepIndices(_, _, _)
KeepIndices(c, keep, k) ==
    IF k > Len(c) THEN << >>
    ELSE (IF k \in keep THEN <<c[k]>> ELSE << >>) \o KeepIndices(c, keep, k + 1)

\* c without every entry that equals, ignoring case, an earlier entry of c
FirstOccurrences(c) ==
    KeepIndices(c, {i \in 1..Len(c) : \A j \in 1..(i - 1) : Lower(c[j]) # Lower(c[i])}, 1)

\* C1: merge_intelligence(aggregate, increment) leaves both arguments as they
\* were before the call and returns an object that did not exist before.
MergeLeavesInputsUnchanged ==
    call.op = "merge" =>
        /\ heap[call.a] = call.pre[call.a]
        /\ heap[call.b] = call.pre[call.b]
        /\ call.ret \notin 1..Len(call.pre)

\* C2: every field of the merge result is the concatenation of the aggregate's
\* list and the increment's list without the entries that equal, ignoring
\* case, an earlier entry; survivors keep their order and spelling.
MergeIsOrderedDedup ==
    call.op = "merge" =>
        \A f \in Fields :
            heap[call.ret][f] = FirstOccurrences(call.pre[call.a][f] \o call.pre[call.b][f])

\* a merge that dropped a differently spelled duplicate and kept two entries
MergeDroppedCaseVariant ==
    /\ call.op = "merge"
    /\ call.a # call.b
    /\ \E f \in Fields :
          LET c == call.pre[call.a][f] \o call.pre[call.b][f]
          IN  /\ call.pre[call.a][f] # << >> /\ call.pre[call.b][f] # << >>
              /\ Len(heap[call.ret][f]) >= 2
              /\ \E i \in 1..Len(c) : \E j \in 1..Len(c) :
                    i < j /\ c[i] # c[j] /\ Lower(c[i]) = Lower(c[j])

\* C3: merging an extract result with itself yields exactly its lists.
MergeIdempotentOnExtract ==
    (call.op = "merge" /\ call.a = call.b /\ call.preorigin[call.a].kind = "extract")
        => heap[call.ret] = call.pre[call.a]

\* the field lists of merge(merge(a, b), c) and of merge(a, merge(b, c)), each
\* computed from the heap h
MergeLeft(h, a, b, c) ==
    LET ab == merge_intelligence(h, a, b)
        r  == merge_intelligence(ab.heap, ab.ret, c)
    IN  r.heap[r.ret]
MergeRight(h, a, b, c) ==
    LET bc == merge_intelligence(h, b, c)
        r  == merge_intelligence(bc.heap, a, bc.ret)
    IN  r.heap[r.ret]

\* C4: for any three objects, merge(merge(A, B), C) and merge(A, merge(B, C))
\* computed from the same starting values have the same lists in every field.
MergeAssociative ==
    \A a \in 1..Len(heap) : \A b \in 1..Len(heap) : \A c \in 1..Len(heap) :
        MergeLeft(heap, a, b, c) = MergeRight(heap, a, b, c)

\* three distinct objects sharing a field in which all are non-empty and the
\* merge removes something
ThreeOverlappingObjects ==
    \E a \in 1..Len(heap) : \E b \in 1..Len(heap) : \E c \in 1..Len(heap) :
        /\ a # b /\ b # c /\ a # c
        /\ \E f \in Fields :
              /\ heap[a][f] # << >> /\ heap[b][f] # << >> /\ heap[c][f] # << >>
              /\ Len(MergeLeft(heap, a, b, c)[f]) >= 2
              /\ Len(MergeLeft(heap, a, b, c)[f]) < Len(heap[a][f]) + Len(heap[b][f]) + Len(heap[c][f])

\* C5: no field of any ExtractedIntelligence the program produced holds two
\* entries that are equal ignoring case.
NoCaseInsensitiveDuplicates ==
    \A o \in 1..Len(heap) : \A f \in Fields : CIUnique(heap[o][f])

\* the last two calls merged two extractions of one text into one aggregate
MergedSameTextTwice ==
    /\ call.op = "merge" /\ call.prev.op = "merge"
    /\ call.a = call.prev.ret
    /\ origin[call.b].kind = "extract" /\ origin[call.prev.b].kind = "extract"
    /\ origin[call.b].text = origin[call.prev.b].text

\* C10: merging extract(m) into an aggregate and then a second extract(m) into
\* the result leaves every field as it was after the first merge.
RepresentationStable ==
    MergedSameTextTwice =>
        \A f \in Fields :
            /\ heap[call.ret][f] = call.pre[call.a][f]
            /\ Len(heap[call.ret][f]) = Len(call.pre[call.a][f])

\* the second extraction is another object and carries entities
MergedSecondExtraction ==
    /\ MergedSameTextTwice
    /\ call.b # call.prev.b
    /\ \E f \in Fields : heap[call.b][f] # << >>

\* ------------------------------------------------------------------------
\* Properties of extract_cumulative_intel (checked under SpecPipeline)
\* ------------------------------------------------------------------------
IsPrefixOf(p, s) == Len(p) <= Len(s) /\ SubSeq(s, 1, Len(p)) = p

\* the field f of the extractions of the messages msgs[k..], concatenated
RECURSIVE ConcatField(_, _, _)
ConcatField(msgs, f, k) ==
    IF k > Len(msgs) THEN << >>
    ELSE ExtractTable[msgs[k]][f] \o ConcatField(msgs, f, k + 1)

\* index of the first message of msgs whose extraction holds entry e in field f
\* (ignoring case)
FirstSeen(msgs, f, e) ==
    CHOOSE k \in 1..Len(msgs) :
        /\ \E i \in 1..Len(ExtractTable[msgs[k]][f]) : Lower(ExtractTable[msgs[k]][f][i]) = Lower(e)
        /\ \A j \in 1..(k - 1) :
              \A i \in 1..Len(ExtractTable[msgs[j]][f]) : Lower(ExtractTable[msgs[j]][f][i]) # Lower(e)

\* C6: extract_cumulative_intel returns the fold of merge over the extractions
\* of history[0..n-1] and then the current message: each field is the ordered
\* first occurrences of the concatenated extractions, so an entity first seen
\* in an earlier message precedes one first seen later, the current message last.
CumulativeIsLeftFold ==
    turn.op = "cumulative" =>
        LET msgs == Append(turn.hist, turn.cur)
        IN  \A f \in Fields :
              LET agg == heap[turn.ret][f]
              IN  /\ agg = FirstOccurrences(ConcatField(msgs, f, 1))
                  /\ \A p \in 1..Len(agg) : \A q \in 1..Len(agg) :
                        p < q => FirstSeen(msgs, f, agg[p]) <= FirstSeen(msgs, f, agg[q])

\* a call with two history messages whose current message repeats an entity
\* of the history in another spelling and adds a new one, which comes last
CurrentMessageAddsLast ==
    /\ turn.op = "cumulative"
    /\ Len(turn.hist) = 2
    /\ \E f \in Fields :
          LET agg == heap[turn.ret][f]
              cur == ExtractTable[turn.cur][f]
              old == ConcatField(turn.hist, f, 1)
          IN  /\ Len(agg) >= 2
              /\ \E i \in 1..Len(cur) : \E j \in 1..Len(old) :
                    cur[i] # old[j] /\ Lower(cur[i]) = Lower(old[j])
              /\ InList(agg[Len(agg)], cur)
              /\ \A j \in 1..Len(old) : Lower(old[j]) # Lower(agg[Len(agg)])

\* request y is a later turn of the conversation of request x
LaterTurn(x, y) == IsPrefixOf(Append(x.hist, x.cur), y.hist)

\* C7: when a request's history starts with an earlier request's history
\* followed by its current message, every field of the earlier aggregate is a
\* prefix of the same field of the later aggregate.
NothingLost ==
    \A i \in 1..Len(log) : \A j \in 1..Len(log) :
        LaterTurn(log[i], log[j]) =>
            \A f \in Fields : IsPrefixOf(log[i].agg[f], log[j].agg[f])

\* two turns of one conversation were served, the later one seeing one more
\* message after the earlier turn's and growing a non-empty field
ConversationGrew ==
    \E i \in 1..Len(log) : \E j \in 1..Len(log) :
        /\ i < j
        /\ LaterTurn(log[i], log[j])
        /\ Len(log[j].hist) > Len(log[i].hist) + 1
        /\ \E f \in Fields :
              log[i].agg[f] # << >> /\ Len(log[j].agg[f]) > Len(log[i].agg[f])

OwnEntities(req) ==
    [f \in Fields |->
        FirstOccurrences(ConcatField(Append(req.history, req.current_msg), f, 1))]

\* C9: under any interleaving of concurrently handled requests, each request's
\* aggregate, its response and its callback payload (as built and as received
\* by the endpoint) hold exactly the entities of that request's own history
\* and current message, so never an entity found only in another request.
RequestsIsolated ==
    /\ \A r \in 1..Len(requests) :
          LET req == requests[r]
              own == OwnEntities(req)
          IN  req.cumulative_intel # 0 =>
                /\ heap[req.cumulative_intel] = own
                /\ req.pc = "done" =>
                      /\ \A f \in Range(ResponseFields) :
                            req.response.extractedIntelligence[f] = own[f]
                      /\ req.response.agentNotes.intel_summary = IntelSummary(own, 1)
                /\ req.task.state \in {"posting", "delivered", "failed"} =>
                      \A f \in PayloadFields : req.payload.extractedIntelligence[f] = own[f]
    /\ \A i \in 1..Len(posted) :
          \A f \in PayloadFields :
              posted[i].payload.extractedIntelligence[f]
                  = OwnEntities(requests[posted[i].request])[f]

\* a request was handled from extraction to the delivery of its callback while
\* another request, holding an entity the first does not have, had its
\* aggregate built and was still waiting for its reply
HandledInsideAnotherRequest ==
    \E r \in 1..Len(requests) : \E q \in 1..Len(requests) :
        /\ r # q
        /\ requests[q].pc = "replying"
        /\ requests[r].cumulative_intel > requests[q].cumulative_intel
        /\ requests[r].pc = "done"
        /\ requests[r].task.state = "delivered"
        /\ \E i \in 1..Len(posted) : posted[i].request = r
        /\ \E f \in PayloadFields :
              \E k \in 1..Len(OwnEntities(requests[q])[f]) :
                  ~InList(OwnEntities(requests[q])[f][k], OwnEntities(requests[r])[f])

\* ------------------------------------------------------------------------
\* Properties of extract (checked under SpecExtract)
\* ------------------------------------------------------------------------
\* number of occurrences of the character c in s
Count(s, c) == Cardinality({i \in 1..Len(s) : s[i] = c})

\* C11: when every '@' of a text lies inside an email address that extract
\* detected (as many detected addresses as '@' characters), the call returns
\* no payment handle: upiIds is empty while emailAddresses holds the emails.
EmailsYieldNoHandle ==
    (/\ turn.op = "extract"
     /\ heap[turn.ret].emailAddresses # << >>
     /\ Count(turn.cur, "@") = Len(heap[turn.ret].emailAddresses))
        => heap[turn.ret].upiIds = << >>

\* C12: in every extract result and every aggregate, each bankAccounts entry
\* is 9 to 18 digits, and a 10-digit entry neither starts with 6, 7, 8 or 9
\* nor with 16, 17 or 18.
BankAccountsWellFormed ==
    \A o \in 1..Len(heap) :
        \A i \in 1..Len(heap[o].bankAccounts) :
            LET b == heap[o].bankAccounts[i]
            IN  /\ IsDigitStr(b) /\ 9 <= Len(b) /\ Len(b) <= 18
                /\ Len(b) = 10 =>
                      /\ b[1] \notin {"6", "7", "8", "9"}
                      /\ ~(b[1] = "1" /\ b[2] \in {"6", "7", "8"})

\* a conversation with a message whose account-like numbers (a mobile number
\* and a timestamp after a context word) are left out, and an account kept
AccountLikeNumbersFiltered ==
    /\ turn.op = "cumulative"
    /\ InList(TxtBankPhone, Append(turn.hist, turn.cur))
    /\ heap[turn.ret].bankAccounts # << >>
    /\ heap[turn.ret].phoneNumbers # << >>

\* a ten-digit mobile number and its four spellings
SampleCore == <<"9","8","7","6","5","4","3","2","1","0">>
PrefixedSpellings(core) ==
    {<<"+","9","1","-">> \o core,
     <<"+","9","1">> \o core,
     <<"+","9","1"," ">> \o SubSeq(core, 1, 5) \o <<" ">> \o SubSeq(core, 6, 10)}

\* text holds the number core with a +91 prefix, or bare between word boundaries
Spells(text, core) ==
    \/ \E sp \in PrefixedSpellings(core) : Contains(text, sp)
    \/ \E i \in 1..Len(text) :
          /\ OccursAt(text, core, i)
          /\ (i = 1 \/ text[i - 1] \notin WordChars)
          /\ (i + 10 > Len(text) \/ text[i + 10] \notin WordChars)

ExtractIsTotal ==
    (turn.op \in {"extract", "raised"} /\ turn.arg.type \in {"str", "NoneType"}) =>
        /\ turn.op = "extract"
        /\ DOMAIN heap[turn.ret] = Fields
        /\ Cardinality(Fields) = 9
        /\ (turn.arg.type = "NoneType" \/ turn.arg.v = << >>) =>
              \A f \in Fields : heap[turn.ret][f] = << >>

\* extract(None) returned after an extract call that found something
ExtractedFromNone ==
    /\ turn.op = "extract"
    /\ turn.arg.type = "NoneType"
    /\ Len(heap) = 2
    /\ \E f \in Fields : heap[1][f] # << >>

\* ------------------------------------------------------------------------
\* Properties of honeypot_handler: failures, the key check, the callback
\* decision (checked under Spec)
\* ------------------------------------------------------------------------
\* the string texts of a body's history objects followed by its message's
RECURSIVE StringTexts(_, _)
StringTexts(values, k) ==
    IF k > Len(values) THEN << >>
    ELSE (IF values[k].j = "object" /\ values[k].t = "str" THEN <<values[k].v>>
          ELSE IF values[k].j = "string" THEN <<values[k].v>>
          ELSE << >>) \o StringTexts(values, k + 1)

\* the body has a message object whose text is not a string
HasNonStringText(body) ==
    \E k \in 1..(Len(body.conversationHistory) + 1) :
        LET m == Append(body.conversationHistory, body.message)[k]
        IN  m.j = "object" /\ m.t = "num"

\* C15: when a message of a turn has a text that is not a string, the turn's
\* response still holds every entity extracted from the other history
\* messages and the current message.
BadMessageIsolated ==
    \A r \in 1..Len(requests) :
        LET req == requests[r]
            texts == StringTexts(Append(req.body.conversationHistory, req.body.message), 1)
        IN  (req.pc = "done" /\ req.body.key /\ req.body.json /\ HasNonStringText(req.body)) =>
                \A k \in 1..Len(ResponseFields) :
                    LET f == ResponseFields[k]
                        found == ConcatField(texts, f, 1)
                    IN  \A i \in 1..Len(found) :
                            \E j \in 1..Len(req.response.extractedIntelligence[f]) :
                                Lower(req.response.extractedIntelligence[f][j]) = Lower(found[i])

RejectedWithoutEffect ==
    /\ [](\A r \in 1..Len(requests) :
            (requests[r].pc # "idle" /\ ~requests[r].body.key) =>
                requests[r] = [IdleRequest EXCEPT !.pc = "done", !.body = requests[r].body,
                                                  !.response = Unauthorized])
    /\ [][\A r \in 1..Len(requests) :
            (requests[r].pc = "idle" /\ requests'[r].pc # "idle" /\ ~requests'[r].body.key) =>
                /\ requests'[r].response.code = 401
                /\ \A q \in 1..Len(requests) : q # r => requests'[q] = requests[q]
                /\ UNCHANGED <<heap, _session_start_times, clock, posted>>]_vars

\* a request of session s1 was rejected while s1 has no start time and
\* another request is being handled
RejectedBesideHandledRequest ==
    \E r \in 1..Len(requests) : \E q \in 1..Len(requests) :
        /\ requests[r].pc = "done" /\ ~requests[r].body.key
        /\ requests[r].body.sessionId \notin DOMAIN _session_start_times
        /\ requests[q].pc = "replying"

\* C18: a turn whose scam analysis says is_scam = false never has a callback
\* task, and nothing of it reaches the callback endpoint.
NoCallbackWhenLegit ==
    /\ \A r \in 1..Len(requests) :
          (requests[r].cumulative_intel # 0 /\ ~requests[r].scam_analysis.is_scam) =>
              requests[r].task = NoTask
    /\ \A i \in 1..Len(posted) : requests[posted[i].request].scam_analysis.is_scam

\* two legitimate turns were answered: one with an end signal and
\* intelligence, one with six messages
LegitTurnsAnswered ==
    \E r \in 1..Len(requests) : \E q \in 1..Len(requests) :
        /\ requests[r].pc = "done" /\ requests[q].pc = "done"
        /\ requests[r].cumulative_intel # 0 /\ requests[q].cumulative_intel # 0
        /\ ~requests[r].scam_analysis.is_scam /\ ~requests[q].scam_analysis.is_scam
        /\ requests[r].has_significant_intel
        /\ \E k \in 1..Len(end_signals) :
              Contains(Lower(requests[r].current_msg), end_signals[k])
        /\ Len(requests[q].history) + 2 >= 6

\* C19: a turn classified as a scam whose request carries a history of two
\* messages schedules a callback.
CallbackFromTurnThree ==
    \A r \in 1..Len(requests) :
        (requests[r].pc = "done" /\ requests[r].cumulative_intel # 0
            /\ requests[r].scam_analysis.is_scam /\ Len(requests[r].history) = 2) =>
                requests[r].task.state # "none"

\* C20: a turn classified as a scam whose total message count (history
\* length + 2) is at least 6 schedules a callback.
CallbackFromSixMessages ==
    \A r \in 1..Len(requests) :
        (requests[r].pc = "done" /\ requests[r].cumulative_intel # 0
            /\ requests[r].scam_analysis.is_scam /\ Len(requests[r].history) + 2 >= 6) =>
                /\ requests[r].task.state # "none"
                /\ requests[r].task.total_messages = Len(requests[r].history) + 2

\* a scam turn with six messages, nothing extracted and no end signal
\* scheduled its callback
SixMessagesAlone ==
    \E r \in 1..Len(requests) :
        /\ requests[r].pc = "done"
        /\ requests[r].scam_analysis.is_scam
        /\ Len(requests[r].history) + 2 = 6
        /\ ~requests[r].has_significant_intel
        /\ ~\E k \in 1..Len(end_signals) :
              Contains(Lower(requests[r].current_msg), end_signals[k])
        /\ requests[r].task.state = "scheduled"

\* ------------------------------------------------------------------------
\* Properties of extract and the aggregate: disambiguation (checked under
\* SpecExtract)
\* ------------------------------------------------------------------------
\* the handle-shaped start of an email address: local part, '@', and the
\* domain up to its first '.' or '-'
HandleShapedPrefix(email) ==
    SplitHead(email, "@") \o <<"@">> \o SplitHead(SplitHead(SplitSecond(email, "@"), "."), "-")

\* C26: in the aggregate returned by extract_cumulative_intel no upiIds entry
\* equals, ignoring case, the handle-shaped prefix of an emailAddresses entry,
\* also when the address and the handle arrive in different messages.
AggregateHandlesAreNotEmailPrefixes ==
    turn.op = "cumulative" =>
        \A i \in 1..Len(heap[turn.ret].upiIds) :
            \A j \in 1..Len(heap[turn.ret].emailAddresses) :
                Lower(heap[turn.ret].upiIds[i]) #
                    HandleShapedPrefix(Lower(heap[turn.ret].emailAddresses[j]))

\* the ten digits of a canonical phone number
PhoneCore(phone) == SubSeq(phone, Len(phone) - 9, Len(phone))

\* C27: in the result of one extract call no bankAccounts entry contains the
\* ten-digit core of a phoneNumbers entry of the same result.
PhonesAreNotBankAccounts ==
    turn.op = "extract" =>
        \A i \in 1..Len(heap[turn.ret].bankAccounts) :
            \A j \in 1..Len(heap[turn.ret].phoneNumbers) :
                ~Contains(heap[turn.ret].bankAccounts[i],
                          PhoneCore(heap[turn.ret].phoneNumbers[j]))

\* ------------------------------------------------------------------------
\* Properties of honeypot_handler: callbacks of successive turns, reported
\* duration, session start time (checked under Spec)
\* ------------------------------------------------------------------------
\* request q is an earlier turn of the conversation of request r: it arrived
\* before r, in the same session, and r's history starts with q's history and
\* q's message
EarlierTurn(q, r) ==
    /\ q < r
    /\ requests[q].session_id = requests[r].session_id
    /\ IsPrefixOf(Append(requests[q].body.conversationHistory, requests[q].body.message),
                  requests[r].body.conversationHistory)

\* C21: the callbacks of one conversation reach the endpoint in turn order:
\* no callback of an earlier turn is received after one of a later turn.
CallbacksInTurnOrder ==
    \A i \in 1..Len(posted) : \A j \in 1..Len(posted) :
        i < j => ~EarlierTurn(posted[j].request, posted[i].request)

\* C22: a turn with total_messages >= 4 reports engagementDurationSeconds
\* greater than 60 in its response and in its callback.
DurationAboveSixty ==
    \A r \in 1..Len(requests) :
        (requests[r].pc = "done" /\ requests[r].cumulative_intel # 0
            /\ Len(requests[r].history) + 2 >= 4) =>
                /\ requests[r].response.engagementMetrics.engagementDurationSeconds > 60
                /\ requests[r].task.state # "none" => requests[r].task.duration_seconds > 60

\* C28: a stored session start time is never changed or removed, and a start
\* time is stored only by the arrival of a request with the right key and a
\* JSON body, for that request's session and with the time of the arrival.
StartTimeWriteOnce ==
    [][/\ \A sid \in DOMAIN _session_start_times :
             /\ sid \in DOMAIN _session_start_times'
             /\ _session_start_times'[sid] = _session_start_times[sid]
       /\ \A sid \in DOMAIN _session_start_times' \ DOMAIN _session_start_times :
             /\ _session_start_times'[sid] = clock
             /\ \E r \in 1..Len(requests) :
                   /\ requests[r].pc = "idle" /\ requests'[r].pc # "idle"
                   /\ requests'[r].body.key /\ requests'[r].body.json
                   /\ requests'[r].session_id = sid]_vars

\* two requests of one session were answered, the second one 61 seconds after
\* the first stored the start time, and the stored time is still the first's
LaterRequestKeptStartTime ==
    \E r \in 1..Len(requests) : \E q \in 1..Len(requests) :
        /\ r # q
        /\ requests[r].pc = "done" /\ requests[r].cumulative_intel # 0
        /\ requests[q].pc = "done" /\ requests[q].cumulative_intel # 0
        /\ requests[r].session_id = requests[q].session_id
        /\ requests[r].response.engagementMetrics.engagementDurationSeconds = 0
        /\ requests[q].response.engagementMetrics.engagementDurationSeconds = ClockStep
        /\ _session_start_times[requests[r].session_id] = 0
        /\ clock = ClockStep

\* C29: the response of a turn never reports a smaller
\* engagementDurationSeconds than the response already given to an earlier
\* turn of the same conversation.
DurationNeverDecreases ==
    [][\A r \in 1..Len(requests) : \A q \in 1..Len(requests) :
          (/\ requests[r].pc = "replying" /\ requests'[r].pc = "done"
           /\ requests[q].pc = "done" /\ requests[q].cumulative_intel # 0
           /\ EarlierTurn(q, r)) =>
              requests'[r].response.engagementMetrics.engagementDurationSeconds >=
                  requests[q].response.engagementMetrics.engagementDurationSeconds]_vars

\* ------------------------------------------------------------------------
\* Properties of AgentService._call_llm (checked under SpecLlm)
\* ------------------------------------------------------------------------
\* the calls, by start order, that try the provider name first
FirstTried(name) == {c \in 1..Len(llm_calls) : llm_calls[c].providers[1] = name}

\* C23: with the Cerebras client configured the c-th call started tries Groq
\* first when c is odd and Cerebras first when c is even, however the calls
\* interleave, so the numbers of Groq-first and Cerebras-first calls differ by
\* at most one; without the client every call tries Groq first.
RoundRobinAlternates ==
    /\ _call_counter = Len(llm_calls)
    /\ \A c \in 1..Len(llm_calls) :
          llm_calls[c].providers[1] =
              IF cerebras_client /\ c % 2 = 0 THEN "Cerebras" ELSE "Groq"
    /\ cerebras_client =>
          /\ Cardinality(FirstTried("Groq")) - Cardinality(FirstTried("Cerebras")) \in {0, 1}
    /\ ~cerebras_client => FirstTried("Cerebras") = {}

\* three calls started while the first was still waiting for its first
\* provider, and the second had already moved on to its second provider
CallsInterleaved ==
    /\ cerebras_client
    /\ Len(llm_calls) = MaxLlmCalls
    /\ llm_calls[1].pc = "trying" /\ llm_calls[1].k = 1
    /\ llm_calls[2].pc = "trying" /\ llm_calls[2].k = 2
    /\ llm_calls[3].pc = "returned"

\* C24: within one call each provider is tried at most once and in the call's
\* order; the second is tried only after the first gave no content; the call
\* returns the first non-empty reply, returns None only when both providers
\* gave no content, and no failure of a provider leaves the call as an
\* exception.
FailoverInOrder ==
    \A c \in 1..Len(llm_calls) :
        LET this == llm_calls[c]
        IN  /\ this.pc # "raised"
            /\ Len(this.tried) <= Len(this.providers)
            /\ \A i \in 1..Len(this.tried) : this.tried[i].name = this.providers[i]
            /\ this.providers[1] # this.providers[2]
            /\ \A i \in 1..(Len(this.tried) - 1) : Falsy(this.tried[i].value)
            /\ (this.pc = "returned" /\ this.result # PyNone) =>
                  /\ ~Falsy(this.result)
                  /\ this.result = this.tried[Len(this.tried)].value
                  /\ this.tried[Len(this.tried)].outcome.kind = "content"
                  /\ this.result.v = strip(this.tried[Len(this.tried)].outcome.v)
            /\ (this.pc = "returned" /\ this.result = PyNone) =>
                  /\ Len(this.tried) = Len(this.providers)
                  /\ \A i \in 1..Len(this.tried) : Falsy(this.tried[i].value)

\* one call got its reply from the second provider after the first timed out,
\* and another returned None after an exception and an empty reply
FailedOverAndGaveUp ==
    \E c \in 1..Len(llm_calls) : \E d \in 1..Len(llm_calls) :
        /\ llm_calls[c].pc = "returned" /\ llm_calls[c].result # PyNone
        /\ Len(llm_calls[c].tried) = 2
        /\ llm_calls[c].tried[1].outcome.kind = "timeout"
        /\ llm_calls[d].pc = "returned" /\ llm_calls[d].result = PyNone
        /\ llm_calls[d].tried[1].outcome.kind = "error"
        /\ llm_calls[d].tried[2].outcome.kind = "content"

\* ------------------------------------------------------------------------
\* Properties of ScamDetectorService.analyze and the handler's step 1
\* (checked under SpecAnalyze)
\* ------------------------------------------------------------------------
\* no pattern layer decides the message
Undecided(input) == ~input.has_scam_signals /\ ~input.is_automated

\* provider i gave no content, or content that is not valid JSON
Unusable(input, i) ==
    input.outcomes[i].kind # "content" \/ input.outcomes[i].v.json = "invalid"

\* the providers tried gave nothing to parse: the first gave text that is not
\* JSON, or gave no content and the second gave no content or no JSON
NothingToParse(input) ==
    /\ Unusable(input, 1)
    /\ input.outcomes[1].kind # "content" => Unusable(input, 2)

\* C25: when no pattern layer decides and the providers give no content or
\* content that is not valid JSON, analyze returns is_scam = true with
\* confidence 0.70; when analyze raises, the handler continues with
\* is_scam = true and confidence 0.75.
FailureNeverNotScam ==
    \A i \in 1..Len(detections) :
        LET d == detections[i]
        IN  /\ (Undecided(d.input) /\ NothingToParse(d.input)) =>
                  /\ ~d.out.raised
                  /\ d.out.analysis.is_scam /\ d.out.analysis.confidence = 70
                  /\ d.scam_analysis = d.out.analysis
            /\ d.out.raised =>
                  d.scam_analysis.is_scam /\ d.scam_analysis.confidence = 75

\* one turn whose providers timed out and raised, and one turn whose reply
\* made analyze raise
BothFailuresHandled ==
    \E i \in 1..Len(detections) : \E j \in 1..Len(detections) :
        /\ Undecided(detections[i].input)
        /\ detections[i].input.outcomes = <<Failed("timeout"), Failed("error")>>
        /\ detections[i].scam_analysis = HeuristicDefault
        /\ detections[j].out.raised
        /\ detections[j].scam_analysis = DetectionErrorFallback

\* the reply that analyze parses says scam with a numeric confidence below 0.6
LowConfidenceScamVerdict(input) ==
    /\ Undecided(input)
    /\ \E k \in 1..2 :
          /\ \A m \in 1..(k - 1) : input.outcomes[m].kind # "content"
          /\ input.outcomes[k].kind = "content"
          /\ input.outcomes[k].v.json = "object"
          /\ Truthy(input.outcomes[k].v.is_scam)
          /\ \/ input.outcomes[k].v.confidence.t = "absent"
             \/ /\ input.outcomes[k].v.confidence.t = "num"
                /\ input.outcomes[k].v.confidence.n < 60

\* C30: analyze never returns is_scam = true with a confidence below 0.6, and
\* an LLM verdict of scam with a confidence below 0.6 is returned as
\* is_scam = false.
ScamMeansConfident ==
    \A i \in 1..Len(detections) :
        LET d == detections[i]
        IN  ~d.out.raised =>
                /\ d.out.analysis.is_scam => d.out.analysis.confidence >= 60
                /\ LowConfidenceScamVerdict(d.input) => ~d.out.analysis.is_scam

\* a verdict of scam with confidence 0.59 was returned as not scam, and one
\* with confidence 0.60 as scam
VerdictsAroundThreshold ==
    \E i \in 1..Len(detections) : \E j \in 1..Len(detections) :
        /\ LowConfidenceScamVerdict(detections[i].input)
        /\ ~detections[i].out.raised
        /\ detections[i].out.analysis = ScamAnalysis(FALSE, 59, "Low confidence - treating as non-scam")
        /\ Undecided(detections[j].input)
        /\ ~detections[j].out.raised
        /\ detections[j].out.analysis = ScamAnalysis(TRUE, 60, "reasoning of the LLM")

====
